---- MODULE Spec2Model ----
(***************************************************************************)
(* A state-machine model of the ROTZ-Coder / DeepCode application:         *)
(*   - the users table and the operations that write it                     *)
(*     (auth/authentication.py, database/models.py, utils/database.py),     *)
(*   - the Streamlit UI session and the login / 2FA flows                   *)
(*     (pages/6_Login.py, pages/3_Profile.py),                              *)
(*   - the per-user provider API keys (auth/encryption.py).                 *)
(***************************************************************************)
EXTENDS Integers, Sequences, FiniteSets, TLC

VARIABLES
    users,          \* the users table: a sequence of rows, id = index
    regs,           \* per database session: a register_user call in flight
    session_state,  \* st.session_state of one UI session: key -> value
    now,            \* wall clock, in hours
    api_keys,       \* the user_api_keys table: a set of rows
    next_key_id,    \* the autoincrement of user_api_keys.id
    ksess,          \* per database session: a store_user_api_key call in flight
    latest_key,     \* per (user, provider): the key of the last committed store, if not deleted since
    key_config,     \* where the encryption key comes from: [secret, env]
    keygen,         \* how many encryption keys Fernet.generate_key() has produced
    held,           \* the ciphertexts encrypt_api_key has returned: [token, proc]
    proc,           \* the number of the running server process
    llm_configs,    \* the llm_configurations table: a set of rows
    next_config_id, \* the autoincrement of llm_configurations.id
    research_tasks, \* the research_tasks table: a sequence of rows, id = index
    db_fault,       \* how the database fails at present: "none", at a "query", at
                    \* a "commit", at a "refresh" (the read of a row just committed)
    uow,            \* the session of a get_db_session block: [pc, pending]
    user_activities,\* the user_activities table: a sequence of rows
    api_usage_logs, \* the api_usage_logs table: a sequence of rows
    error_logs,     \* the error_logs table: a sequence of rows
    tracker,        \* the APICallTracker of an open track_api_call scope, or None
    performance_metrics, \* the performance_metrics table: a sequence of rows
    system_metrics, \* the system_metrics table: a sequence of rows
    providers,      \* LLMProviderFactory._providers: name -> adapter class
    default_models, \* LLMProviderFactory._default_models: name -> model
    adapter,        \* the adapter create_provider returned last, or None
    net_calls,      \* how many HTTP requests the adapters have made
    last            \* the last call made: [op, args, res]

\* the variables of each subsystem
usersVars == <<users, regs>>

uiVars == <<session_state, now>>

keysVars == <<api_keys, next_key_id, ksess, latest_key>>

cryptVars == <<held, proc>>

dbVars == <<llm_configs, next_config_id, research_tasks, db_fault, uow>>

analyticsVars == <<user_activities, api_usage_logs, error_logs, tracker>>

providerVars == <<providers, default_models, adapter, net_calls>>

metricsVars == <<performance_metrics, system_metrics>>

\* the variables the encryption and database utilities never touch
restVars == <<analyticsVars, providerVars, metricsVars>>

\* the variables the users, UI-session and API-key operations never touch
moreVars == <<cryptVars, dbVars, restVars>>

vars == <<users, regs, session_state, now, api_keys, next_key_id, ksess,
          latest_key, key_config, keygen, moreVars, last>>

----------------------------------------------------------------------------
(* Values *)

SuperAdminEmail == "jerome@rotz.host"

\* Emails are compared as stored (case-sensitive): the second one is another email.
Emails == {SuperAdminEmail, "Jerome@rotz.host", "alice@example.com"}

DefaultPassword == "ChangeMe123!"

Passwords == {DefaultPassword, "Passw0rd!x"}

FullNames == {"Alice"}

Salts == {"saltA", "saltB"}

DbSessions == {1, 2}

\* Python's None, as a result
NoneR == [kind |-> "None"]

\* A NULL column
Null == "NULL"

----------------------------------------------------------------------------
(* Passwords: bcrypt *)

\* bcrypt.hashpw(password, salt): the digest depends on both, the salt is kept in it
hashpw(password, salt) == [alg |-> "bcrypt", salt |-> salt, digest |-> <<salt, password>>]

\* hash_password picks a fresh salt: the possible hashes of a password
hash_password(password) == {hashpw(password, s) : s \in Salts}

\* bcrypt.checkpw: re-hash under the stored salt and compare
verify_password(password, hashed) == hashpw(password, hashed.salt) = hashed

----------------------------------------------------------------------------
(* The users table *)

UserIds == 1..Len(users)

\* session.query(User).filter_by(email=email).first(): the matching ids
UsersByEmail(us, email) == {i \in 1..Len(us) : us[i].email = email}

\* (a users table without the unique constraint on email)
UniqueEmailNotEnforced(us, email) == TRUE

\* the unique=True constraint of users.email: may a row with this email be inserted
UniqueEmailOk(us, email) == UsersByEmail(us, email) = {}

\* the User(...) row register_user builds
NewUser(email, password_hash, full_name) ==
    LET new_user == [email |-> email, password_hash |-> password_hash,
                     full_name |-> full_name, is_admin |-> FALSE,
                     is_super_admin |-> FALSE, totp_secret |-> Null]
    IN IF email = SuperAdminEmail
       THEN [new_user EXCEPT !.is_admin = TRUE, !.is_super_admin = TRUE]
       ELSE new_user

IdleReg == [pc |-> "idle"]

\* register_user up to its existence check: an existing email returns None
RegisterLookup(s, email, password, full_name) ==
    /\ regs[s].pc = "idle"
    /\ IF UsersByEmail(users, email) # {}
       THEN /\ regs' = regs
            /\ last' = [op |-> "register_user", args |-> <<email>>,
                        res |-> NoneR, s |-> s]
       ELSE /\ regs' = [regs EXCEPT ![s] = [pc |-> "checked", email |-> email,
                                            password |-> password,
                                            full_name |-> full_name]]
            /\ last' = [op |-> "register_user_check", args |-> <<email>>,
                        res |-> NoneR, s |-> s]
    /\ UNCHANGED <<moreVars, users, session_state, now, api_keys, next_key_id, ksess,
                   latest_key, key_config, keygen>>

\* register_user from hash_password to its return: the INSERT and commit.
\* The unique constraint on users.email makes the commit raise IntegrityError
\* when another session inserted the email after this one's check.
RegisterCommit(s) ==
    /\ regs[s].pc = "checked"
    /\ LET r == regs[s] IN
       \E h \in hash_password(r.password) :
          IF UniqueEmailOk(users, r.email)
          THEN /\ users' = Append(users, NewUser(r.email, h, r.full_name))
               /\ last' = [op |-> "register_user", args |-> <<r.email>>,
                           res |-> [kind |-> "registered", user_id |-> Len(users) + 1,
                                    email |-> r.email, full_name |-> r.full_name,
                                    requires_totp_setup |-> TRUE],
                           s |-> s]
          ELSE /\ users' = users
               /\ last' = [op |-> "register_user", args |-> <<r.email>>,
                           res |-> [kind |-> "IntegrityError"], s |-> s]
    /\ regs' = [regs EXCEPT ![s] = IdleReg]
    /\ UNCHANGED <<moreVars, session_state, now, api_keys, next_key_id, ksess, latest_key,
                   key_config, keygen>>

\* init_super_admin, as init_database_tables runs it at startup
InitSuperAdminRows(us) ==
    LET existing == UsersByEmail(us, SuperAdminEmail) IN
    IF existing = {}
    THEN {Append(us, [email |-> SuperAdminEmail, password_hash |-> h,
                      full_name |-> "Jerome Rotz", is_admin |-> TRUE,
                      is_super_admin |-> TRUE, totp_secret |-> Null])
            : h \in hash_password(DefaultPassword)}
    ELSE LET i == CHOOSE i \in existing : \A j \in existing : i <= j IN
         IF ~us[i].is_super_admin
         THEN {[us EXCEPT ![i].is_super_admin = TRUE, ![i].is_admin = TRUE]}
         ELSE {us}

init_super_admin ==
    /\ users' \in InitSuperAdminRows(users)
    /\ last' = [op |-> "init_super_admin", args |-> <<>>, res |-> NoneR, s |-> 0]
    /\ UNCHANGED <<moreVars, regs, session_state, now, api_keys, next_key_id, ksess,
                   latest_key, key_config, keygen>>

\* does a get_db_session block that queries, writes and commits raise because
\* the database fails: at its query, or at its commit
SessionRaises(fault) == fault \in {"query", "commit"}

\* (update_user_admin_status without its guard on the super-admin email)
UpdateAdminNoGuard(us, user_id, is_admin) ==
    IF user_id \in 1..Len(us)
    THEN [rows |-> [us EXCEPT ![user_id].is_admin = is_admin], ok |-> TRUE]
    ELSE [rows |-> us, ok |-> FALSE]

\* (update_user_admin_status granting admin whatever value is requested)
UpdateAdminAlwaysGrants(us, user_id, is_admin) ==
    IF user_id \in 1..Len(us) /\ us[user_id].email # SuperAdminEmail
    THEN [rows |-> [us EXCEPT ![user_id].is_admin = TRUE], ok |-> TRUE]
    ELSE [rows |-> us, ok |-> FALSE]

\* (update_user_admin_status setting both role flags to the requested value)
UpdateAdminBothFlags(us, user_id, is_admin) ==
    IF user_id \in 1..Len(us) /\ us[user_id].email # SuperAdminEmail
    THEN [rows |-> [us EXCEPT ![user_id].is_admin = is_admin,
                              ![user_id].is_super_admin = is_admin],
          ok |-> TRUE]
    ELSE [rows |-> us, ok |-> FALSE]

\* update_user_admin_status: the table after the call, and what it returns

UpdateAdmin(us, user_id, is_admin) ==
    IF user_id \in 1..Len(us) /\ us[user_id].email # SuperAdminEmail
    THEN [rows |-> [us EXCEPT ![user_id].is_admin = is_admin], ok |-> TRUE]
    ELSE [rows |-> us, ok |-> FALSE]

\* every exception is caught and gives False
update_user_admin_status(user_id, is_admin) ==
    /\ LET w == IF SessionRaises(db_fault)
                THEN [rows |-> users, ok |-> FALSE]
                ELSE UpdateAdmin(users, user_id, is_admin)
       IN
       /\ users' = w.rows
       /\ last' = [op |-> "update_user_admin_status", args |-> <<user_id, is_admin>>,
                   res |-> [kind |-> "bool", ok |-> w.ok], s |-> 0,
                   db_failed |-> SessionRaises(db_fault)]
    /\ UNCHANGED <<moreVars, regs, session_state, now, api_keys, next_key_id, ksess,
                   latest_key, key_config, keygen>>

----------------------------------------------------------------------------
(* TOTP (pyotp) *)

Secrets == {"JBSWY3DPEHPK3PXP", "KRSXG5DJNZTSA43F"}

SecretNum(secret) == IF secret = "JBSWY3DPEHPK3PXP" THEN 3 ELSE 5

\* a truthy Python string: neither None nor ""
Truthy(str) == str # Null /\ str # ""

\* the TOTP time counter at hour t: 30-second periods since the epoch
TimeCode(t) == (t + 1) * 120

\* the six digits of n
Digits6(n) ==
    <<(n \div 100000) % 10, (n \div 10000) % 10, (n \div 1000) % 10,
      (n \div 100) % 10, (n \div 10) % 10, n % 10>>

\* pyotp's TOTP.at: the six-digit code of a secret for one time counter
TotpAt(secret, counter) ==
    Digits6((SecretNum(secret) * 104729 + counter * 7919) % 1000000)

\* verify_totp: totp.verify(token, valid_window=1)
verify_totp(secret, token, t) ==
    \E i \in {-1, 0, 1} : token = TotpAt(secret, TimeCode(t) + i)

\* generate_totp_secret: pyotp.random_base32()
generate_totp_secret == Secrets

----------------------------------------------------------------------------
(* JWT session tokens *)

JwtSecret == "your-secret-key-change-in-production"

JwtExpiryHours == 24

\* jwt.encode(payload, key, HS256): the signature binds the key and the payload
jwt_encode(payload, key) == [payload |-> payload, sig |-> <<key, payload>>]

generate_jwt_token(user_id, email, is_admin, is_super_admin, t) ==
    jwt_encode([user_id |-> user_id, email |-> email, is_admin |-> is_admin,
                is_super_admin |-> is_super_admin,
                exp |-> t + JwtExpiryHours, iat |-> t], JwtSecret)

\* decode_jwt_token: None on InvalidTokenError (bad signature) and on
\* ExpiredSignatureError (exp <= now)
decode_jwt_token(token, t) ==
    IF token.sig # <<JwtSecret, token.payload>>
    THEN NoneR
    ELSE IF token.payload.exp <= t
         THEN NoneR
         ELSE [kind |-> "payload", payload |-> token.payload]

----------------------------------------------------------------------------
(* authenticate_user *)

\* (authenticate_user that skips the TOTP check when no code is supplied)
AuthenticateSkippingOmittedTotp(us, email, password, totp_code, t) ==
    LET found == UsersByEmail(us, email) IN
    IF found = {} THEN NoneR
    ELSE
      LET id == CHOOSE i \in found : \A j \in found : i <= j
          user == us[id]
      IN
      IF ~verify_password(password, user.password_hash) THEN NoneR
      ELSE IF Truthy(user.totp_secret) /\ totp_code # <<>>
              /\ ~verify_totp(user.totp_secret, totp_code, t)
      THEN NoneR
      ELSE [kind |-> "user", user_id |-> id, email |-> user.email,
            full_name |-> user.full_name, is_admin |-> user.is_admin,
            is_super_admin |-> user.is_super_admin,
            token |-> generate_jwt_token(id, user.email, user.is_admin,
                                         user.is_super_admin, t)]

authenticate_user(us, email, password, totp_code, t) ==
    LET found == UsersByEmail(us, email) IN
    IF found = {} THEN NoneR
    ELSE
      LET id == CHOOSE i \in found : \A j \in found : i <= j
          user == us[id]
      IN
      IF ~verify_password(password, user.password_hash) THEN NoneR
      ELSE IF Truthy(user.totp_secret) /\ totp_code = <<>>
      THEN [kind |-> "totp", requires_totp |-> TRUE, user_id |-> id]
      ELSE IF Truthy(user.totp_secret)
              /\ ~verify_totp(user.totp_secret, totp_code, t)
      THEN NoneR
      ELSE [kind |-> "user", user_id |-> id, email |-> user.email,
            full_name |-> user.full_name, is_admin |-> user.is_admin,
            is_super_admin |-> user.is_super_admin,
            token |-> generate_jwt_token(id, user.email, user.is_admin,
                                         user.is_super_admin, t)]

----------------------------------------------------------------------------
(* The UI session: st.session_state as a map from the keys present *)

EmptySessionState == [k \in {} |-> NoneR]

Del(ss, key) == [k \in DOMAIN ss \ {key} |-> ss[k]]

Put(ss, key, value) == [k \in DOMAIN ss \cup {key} |-> IF k = key THEN value ELSE ss[k]]

\* (check_authentication returning the stored bundle without decoding its token)
CheckWithoutRevalidation(ss, t) ==
    IF "user" \notin DOMAIN ss
    THEN [ss |-> ss, res |-> NoneR]
    ELSE [ss |-> ss, res |-> ss["user"]]

\* check_authentication: the session state it leaves and what it returns
check_authentication(ss, t) ==
    IF "user" \notin DOMAIN ss
    THEN [ss |-> ss, res |-> NoneR]
    ELSE LET user_data == ss["user"] IN
         IF "token" \in DOMAIN user_data
            /\ decode_jwt_token(user_data.token, t) = NoneR
         THEN [ss |-> Del(ss, "user"), res |-> NoneR]
         ELSE [ss |-> ss, res |-> user_data]

----------------------------------------------------------------------------
(* The pages' handlers on the UI session *)

\* the latest hour the clock is run to
MaxTime == 24

TickSteps == {12}

\* time passes
Tick(d) ==
    /\ now + d <= MaxTime
    /\ now' = now + d
    /\ last' = [op |-> "tick", args |-> <<d>>, res |-> NoneR, s |-> 0]
    /\ UNCHANGED <<moreVars, users, regs, session_state, api_keys, next_key_id, ksess,
                   latest_key, key_config, keygen>>

\* the codes typed into a TOTP field at hour t: nothing, the current code of a
\* secret, a stale one, too few digits
CodeInputs(t) ==
    {<<>>, <<1, 2, 3>>}
        \cup {TotpAt(sec, TimeCode(t) + i) : sec \in Secrets, i \in {-2, 0}}

\* register_user run alone in its database session (Register page)
register_user(email, password, full_name) ==
    /\ IF UsersByEmail(users, email) # {}
       THEN /\ users' = users
            /\ last' = [op |-> "register_user", args |-> <<email>>,
                        res |-> NoneR, s |-> 0]
       ELSE \E h \in hash_password(password) :
            /\ UniqueEmailOk(users, email)
            /\ users' = Append(users, NewUser(email, h, full_name))
            /\ last' = [op |-> "register_user", args |-> <<email>>,
                        res |-> [kind |-> "registered", user_id |-> Len(users) + 1,
                                 email |-> email, full_name |-> full_name,
                                 requires_totp_setup |-> TRUE],
                        s |-> 0]
    /\ UNCHANGED <<moreVars, regs, session_state, now, api_keys, next_key_id, ksess,
                   latest_key, key_config, keygen>>

\* (a Login page that stores whatever non-None result authenticate_user gave)
LoginStoresAnyResult(ss, result) ==
    IF result = NoneR THEN ss ELSE Put(ss, "user", result)

\* Login page: the session state after authenticate_user returned result
LoginSessionAfter(ss, result) ==
    IF result = NoneR
    THEN ss
    ELSE IF "requires_totp" \in DOMAIN result /\ result.requires_totp
    THEN ss
    ELSE Put(ss, "user", result)

\* Login page, form submitted: the form is only rendered to a session for which
\* check_authentication returned None
LoginSubmit(email, password, totp_code) ==
    LET chk == check_authentication(session_state, now) IN
    /\ chk.res = NoneR
    /\ IF email = "" \/ password = ""
       THEN /\ session_state' = chk.ss
            /\ last' = [op |-> "login", args |-> <<email, password, totp_code>>,
                        res |-> [kind |-> "missing_fields"], s |-> 0]
       ELSE LET result == authenticate_user(users, email, password, totp_code, now) IN
            /\ last' = [op |-> "login", args |-> <<email, password, totp_code>>,
                        res |-> result, s |-> 0]
            /\ session_state' = LoginSessionAfter(chk.ss, result)
    /\ UNCHANGED <<moreVars, users, regs, now, api_keys, next_key_id, ksess, latest_key,
                   key_config, keygen>>

\* any page load: check_authentication / require_authentication / require_admin
CheckAuthentication ==
    LET chk == check_authentication(session_state, now) IN
    /\ session_state' = chk.ss
    /\ last' = [op |-> "check_authentication", args |-> <<>>, res |-> chk.res,
                s |-> 0, had_user |-> "user" \in DOMAIN session_state]
    /\ UNCHANGED <<moreVars, users, regs, now, api_keys, next_key_id, ksess, latest_key,
                   key_config, keygen>>

\* the session keys logout treats as auth_-prefixed
StartsWithAuth(key) == key \in {"auth_redirect", "auth_message"}

\* (a logout that clears the whole session state)
LogoutClearsSession(ss) == EmptySessionState

\* logout: the session state it leaves
logout(ss) ==
    LET without_user == IF "user" \in DOMAIN ss THEN Del(ss, "user") ELSE ss IN
    [k \in {k \in DOMAIN without_user : ~StartsWithAuth(k)} |-> without_user[k]]

\* the Logout button of the Profile and Home pages (shown to a logged-in user)
Logout ==
    LET chk == check_authentication(session_state, now) IN
    /\ chk.res # NoneR
    /\ session_state' = logout(chk.ss)
    /\ last' = [op |-> "logout", args |-> <<>>, res |-> NoneR, s |-> 0]
    /\ UNCHANGED <<moreVars, users, regs, now, api_keys, next_key_id, ksess, latest_key,
                   key_config, keygen>>

\* (setup_user_totp that persists the secret without verifying the code)
SetupTotpUnverified(us, user_id, totp_code, secret, t) ==
    IF user_id \notin 1..Len(us)
    THEN [rows |-> us, ok |-> FALSE]
    ELSE [rows |-> [us EXCEPT ![user_id].totp_secret = secret], ok |-> TRUE]

\* setup_user_totp: the table after the call, and what it returns
setup_user_totp(us, user_id, totp_code, secret, t) ==
    IF ~verify_totp(secret, totp_code, t)
    THEN [rows |-> us, ok |-> FALSE]
    ELSE IF user_id \notin 1..Len(us)
    THEN [rows |-> us, ok |-> FALSE]
    ELSE [rows |-> [us EXCEPT ![user_id].totp_secret = secret], ok |-> TRUE]

\* Profile page, "Enable 2FA" / "Regenerate 2FA": show the setup panel; the
\* rerun proposes a fresh secret unless one is already pending in the session
ShowTotpSetup ==
    LET chk == check_authentication(session_state, now) IN
    /\ chk.res # NoneR
    /\ \E sec \in generate_totp_secret :
          session_state' =
             LET shown == Put(chk.ss, "show_totp_setup", TRUE) IN
             IF "totp_secret" \notin DOMAIN shown
             THEN Put(shown, "totp_secret", sec)
             ELSE shown
    /\ last' = [op |-> "show_totp_setup", args |-> <<>>, res |-> NoneR, s |-> 0]
    /\ UNCHANGED <<moreVars, users, regs, now, api_keys, next_key_id, ksess, latest_key,
                   key_config, keygen>>

\* is the 2FA setup panel rendered
TotpSetupShown(ss) ==
    /\ "show_totp_setup" \in DOMAIN ss
    /\ ss["show_totp_setup"]
    /\ "totp_secret" \in DOMAIN ss

\* Profile page, "Verify & Enable" with a typed code
VerifyAndEnable(totp_code) ==
    LET chk == check_authentication(session_state, now) IN
    /\ chk.res # NoneR
    /\ TotpSetupShown(chk.ss)
    /\ IF totp_code # <<>> /\ Len(totp_code) = 6
       THEN LET r == setup_user_totp(users, chk.res.user_id, totp_code,
                                     chk.ss["totp_secret"], now) IN
            /\ users' = r.rows
            /\ session_state' = IF r.ok
                                THEN Del(Del(chk.ss, "totp_secret"), "show_totp_setup")
                                ELSE chk.ss
            /\ last' = [op |-> "setup_user_totp",
                        args |-> <<chk.res.user_id, totp_code, chk.ss["totp_secret"]>>,
                        res |-> [kind |-> "bool", ok |-> r.ok], s |-> 0]
       ELSE /\ users' = users
            /\ session_state' = chk.ss
            /\ last' = [op |-> "verify_and_enable", args |-> <<totp_code>>,
                        res |-> [kind |-> "not_six_digits"], s |-> 0]
    /\ UNCHANGED <<moreVars, regs, now, api_keys, next_key_id, ksess, latest_key, key_config, keygen>>

\* Profile page, "Cancel" in the setup panel
CancelTotpSetup ==
    LET chk == check_authentication(session_state, now) IN
    /\ chk.res # NoneR
    /\ TotpSetupShown(chk.ss)
    /\ session_state' = Del(Del(chk.ss, "totp_secret"), "show_totp_setup")
    /\ last' = [op |-> "cancel_totp_setup", args |-> <<>>, res |-> NoneR, s |-> 0]
    /\ UNCHANGED <<moreVars, users, regs, now, api_keys, next_key_id, ksess, latest_key,
                   key_config, keygen>>

----------------------------------------------------------------------------
(* Encryption of API keys (Fernet) *)

\* a configured string, by its length and its text
Secret44 == [len |-> 44, text |-> "c2VjcmV0LWZlcm5ldC1rZXk"]

Passphrase == [len |-> 12, text |-> "my-env-pass"]

Unset == [len |-> 0, text |-> ""]

\* the deployments: key in st.secrets, key in the environment, neither
KeyConfigs ==
    {[has_secret |-> TRUE, secret |-> Secret44, env |-> Unset],
     [has_secret |-> FALSE, secret |-> Unset, env |-> Passphrase],
     [has_secret |-> FALSE, secret |-> Unset, env |-> Unset]}

\* a 44-character string is the key itself, any other is padded or cut to 32
\* bytes and base64-encoded
KeyFromString(str) ==
    IF str.len = 44
    THEN [kind |-> "raw", text |-> str.text, n |-> 0]
    ELSE [kind |-> "derived", text |-> str.text, n |-> 0]

\* does get_or_create_encryption_key fall through to Fernet.generate_key()
GeneratesKey(cfg) == ~cfg.has_secret /\ cfg.env.len = 0

\* get_or_create_encryption_key, as its n-th call that generates a key
get_or_create_encryption_key(cfg, n) ==
    IF cfg.has_secret
    THEN KeyFromString(cfg.secret)
    ELSE IF cfg.env.len > 0
    THEN KeyFromString(cfg.env)
    ELSE [kind |-> "generated", text |-> "", n |-> n]

\* a 44-character string that is not the base64 of 32 bytes
Garbage44 == [len |-> 44, text |-> "not-a-base64-key"]

\* Fernet(key): a raw 44-character string must decode to 32 bytes (ValueError
\* otherwise); derived and generated keys always do
FernetAccepts(key) == key.kind # "raw" \/ key.text = Secret44.text

\* the HMAC a Fernet token ends with: over the encrypted body, under the key
Hmac(key, fernet_key, plaintext) == <<key, fernet_key, plaintext>>

\* encrypt_api_key under the key resolved for this call: the body (the
\* plaintext under the key) and its HMAC
encrypt_api_key(api_key, key) ==
    [fernet_key |-> key, plaintext |-> api_key, hmac |-> Hmac(key, key, api_key)]

\* (a decrypt_api_key that does not authenticate the token)
DecryptWithoutHmac(encrypted_key, key) ==
    IF FernetAccepts(key) /\ encrypted_key.fernet_key = key
    THEN [kind |-> "str", value |-> encrypted_key.plaintext]
    ELSE NoneR

\* decrypt_api_key under the key resolved for this call: None when Fernet
\* rejects the key (ValueError) or the token (InvalidToken)
decrypt_api_key(encrypted_key, key) ==
    IF /\ FernetAccepts(key)
       /\ encrypted_key.hmac
             = Hmac(key, encrypted_key.fernet_key, encrypted_key.plaintext)
    THEN [kind |-> "str", value |-> encrypted_key.plaintext]
    ELSE NoneR

----------------------------------------------------------------------------
(* The user_api_keys table *)

Providers == {"openai", "deepseek"}

KnownProviders ==
    {"openai", "anthropic", "brave", "deepseek", "gemini", "openrouter", "qwen",
     "grok"}

\* provider.lower()
Lower(provider) == IF provider = "OpenAI" THEN "openai" ELSE provider

\* API keys as typed: their prefix, their length, the rest of their text
ApiKeyInputs ==
    {[prefix |-> "sk-", len |-> 51, tag |-> "A"],
     [prefix |-> "sk-", len |-> 51, tag |-> "B"],
     [prefix |-> "", len |-> 32, tag |-> "C"],
     [prefix |-> "sk-", len |-> 9, tag |-> "D"]}

\* k.startswith(prefix), for the prefixes "sk-" and "sk-ant-"
StartsWith(k, prefix) ==
    IF prefix = "sk-" THEN k.prefix \in {"sk-", "sk-ant-"} ELSE k.prefix = prefix

\* (a validator that accepts every key)
ValidateAcceptsAny(api_key, provider) == TRUE

validate_api_key_format(api_key, provider) ==
    IF api_key.len = 0 \/ api_key.len < 10
    THEN FALSE
    ELSE IF Lower(provider) = "openai"
    THEN StartsWith(api_key, "sk-") /\ api_key.len > 20
    ELSE IF Lower(provider) = "anthropic"
    THEN StartsWith(api_key, "sk-ant-") /\ api_key.len > 20
    ELSE IF Lower(provider) \in KnownProviders
    THEN api_key.len > 20
    ELSE api_key.len > 10

\* the rows of one (user, provider) pair
PairRows(rows, user_id, provider) ==
    {r \in rows : r.user_id = user_id /\ r.provider = provider}

NoRow == [id |-> 0]

\* query(...).first(): the rows it may return (no ORDER BY), NoRow for None
First(matching) == IF matching = {} THEN {NoRow} ELSE matching

\* (a store that never looks for an existing row)
StoreAlwaysInserts(rows, existing_id, user_id, provider, encrypted_key, new_id) ==
    [rows |-> rows \cup {[id |-> new_id, user_id |-> user_id,
                          provider |-> provider,
                          api_key_encrypted |-> encrypted_key,
                          is_active |-> TRUE]},
     ok |-> TRUE, inserted |-> TRUE]

\* (a store that re-activates an existing row but keeps its old ciphertext)
StoreKeepsOldCiphertext(rows, existing_id, user_id, provider, encrypted_key, new_id) ==
    IF existing_id # 0
    THEN [rows |-> {[r EXCEPT !.is_active = TRUE] : r \in {x \in rows : x.id = existing_id}}
                      \cup {x \in rows : x.id # existing_id},
          ok |-> TRUE, inserted |-> FALSE]
    ELSE [rows |-> rows \cup {[id |-> new_id, user_id |-> user_id,
                               provider |-> provider,
                               api_key_encrypted |-> encrypted_key,
                               is_active |-> TRUE]},
          ok |-> TRUE, inserted |-> TRUE]

\* store_user_api_key's write, flushed at commit: UPDATE the row found by the
\* lookup (by primary key; it fails if the row is gone) or INSERT a new one
StoreFlush(rows, existing_id, user_id, provider, encrypted_key, new_id) ==
    IF existing_id # 0
    THEN IF \E x \in rows : x.id = existing_id
         THEN [rows |-> {[r EXCEPT !.api_key_encrypted = encrypted_key,
                                   !.is_active = TRUE]
                            : r \in {x \in rows : x.id = existing_id}}
                           \cup {x \in rows : x.id # existing_id},
               ok |-> TRUE, inserted |-> FALSE]
         ELSE [rows |-> rows, ok |-> FALSE, inserted |-> FALSE]
    ELSE [rows |-> rows \cup {[id |-> new_id, user_id |-> user_id,
                               provider |-> provider,
                               api_key_encrypted |-> encrypted_key,
                               is_active |-> TRUE]},
          ok |-> TRUE, inserted |-> TRUE]

\* get_user_api_key: what it may return
GetResults(rows, user_id, provider, key) ==
    LET active == {r \in PairRows(rows, user_id, provider) : r.is_active} IN
    IF active = {}
    THEN {NoneR}
    ELSE {decrypt_api_key(r.api_key_encrypted, key) : r \in active}

\* the highest user_api_keys.id a run hands out
MaxKeyId == 3

\* the record of the last committed store of a pair
Latest(user_id, provider, api_key) ==
    [user_id |-> user_id, provider |-> provider, api_key |-> api_key]

\* latest_key without the pair's record
Forget(latest, user_id, provider) ==
    {e \in latest : ~(e.user_id = user_id /\ e.provider = provider)}

\* the most keys Fernet.generate_key() is asked for
MaxKeygen == 3

BoolR(b) == [kind |-> "bool", ok |-> b]

\* counting a call of get_or_create_encryption_key
KeygenAfter(n) == IF GeneratesKey(key_config) THEN n + 1 ELSE n

\* store_user_api_key run alone in its database session
store_user_api_key(user_id, provider, api_key) ==
    /\ keygen < MaxKeygen
    /\ IF ~validate_api_key_format(api_key, provider)
       THEN /\ last' = [op |-> "store_user_api_key",
                        args |-> <<user_id, provider, api_key>>,
                        res |-> BoolR(FALSE), s |-> 0]
            /\ UNCHANGED <<api_keys, next_key_id, latest_key, keygen>>
       ELSE IF SessionRaises(db_fault)
       THEN \* the lookup or the commit raises: rollback, False
            /\ last' = [op |-> "store_user_api_key",
                        args |-> <<user_id, provider, api_key>>,
                        res |-> BoolR(FALSE), s |-> 0]
            /\ keygen' = KeygenAfter(keygen)
            /\ UNCHANGED <<api_keys, next_key_id, latest_key>>
       ELSE \E existing \in First(PairRows(api_keys, user_id, provider)) :
            LET key == get_or_create_encryption_key(key_config, keygen + 1)
                w == StoreFlush(api_keys, existing.id, user_id, provider,
                                encrypt_api_key(api_key, key), next_key_id)
            IN
            /\ w.inserted => next_key_id <= MaxKeyId
            /\ api_keys' = w.rows
            /\ next_key_id' = IF w.inserted THEN next_key_id + 1 ELSE next_key_id
            /\ keygen' = KeygenAfter(keygen)
            /\ latest_key' = IF w.ok
                             THEN Forget(latest_key, user_id, provider)
                                     \cup {Latest(user_id, provider, api_key)}
                             ELSE latest_key
            /\ last' = [op |-> "store_user_api_key",
                        args |-> <<user_id, provider, api_key>>,
                        res |-> BoolR(w.ok), s |-> 0]
    /\ UNCHANGED <<moreVars, users, regs, session_state, now, ksess, key_config>>

\* get_user_api_key
get_user_api_key(user_id, provider) ==
    /\ keygen < MaxKeygen
    /\ LET found == PairRows(api_keys, user_id, provider) # {}
                       /\ \E r \in PairRows(api_keys, user_id, provider) : r.is_active
           key == get_or_create_encryption_key(key_config, keygen + 1)
       IN
       /\ \E res \in GetResults(api_keys, user_id, provider, key) :
             last' = [op |-> "get_user_api_key", args |-> <<user_id, provider>>,
                      res |-> res, s |-> 0]
       /\ keygen' = IF found THEN KeygenAfter(keygen) ELSE keygen
    /\ UNCHANGED <<moreVars, users, regs, session_state, now, api_keys, next_key_id, ksess,
                   latest_key, key_config>>

\* delete_user_api_key's effect, given the row its lookup returned
DeleteRow(rows, row) ==
    IF row # NoRow
    THEN [rows |-> rows \ {row}, ok |-> TRUE]
    ELSE [rows |-> rows, ok |-> FALSE]

\* delete_user_api_key run alone in its database session
delete_user_api_key(user_id, provider) ==
    /\ \E row \in First(PairRows(api_keys, user_id, provider)) :
         LET d == DeleteRow(api_keys, row) IN
         /\ api_keys' = d.rows
         /\ latest_key' = IF d.ok
                          THEN Forget(latest_key, user_id, provider)
                          ELSE latest_key
         /\ last' = [op |-> "delete_user_api_key", args |-> <<user_id, provider>>,
                     res |-> BoolR(d.ok), s |-> 0]
    /\ UNCHANGED <<moreVars, users, regs, session_state, now, next_key_id, ksess, key_config,
                   keygen>>

----------------------------------------------------------------------------
(* store_user_api_key in concurrent database sessions *)

\* a database session with no store in flight; raced: the pairs it has
\* committed a store for while the other session's store was in flight
IdleStore(raced) == [pc |-> "idle", raced |-> raced]

\* has another session a store for the pair in flight
OthersInFlight(s, user_id, provider) ==
    {t \in DbSessions \ {s} :
        /\ ksess[t].pc # "idle"
        /\ ksess[t].user_id = user_id
        /\ ksess[t].provider = provider}

\* store_user_api_key up to its lookup: validate, encrypt, query the pair's row
StoreLookup(s, user_id, provider, api_key) ==
    /\ ksess[s].pc = "idle"
    /\ keygen < MaxKeygen
    /\ IF ~validate_api_key_format(api_key, provider)
       THEN /\ last' = [op |-> "store_user_api_key",
                        args |-> <<user_id, provider, api_key>>,
                        res |-> BoolR(FALSE), s |-> s]
            /\ UNCHANGED <<ksess, keygen>>
       ELSE \E existing \in First(PairRows(api_keys, user_id, provider)) :
            LET key == get_or_create_encryption_key(key_config, keygen + 1)
                others == OthersInFlight(s, user_id, provider)
            IN
            /\ ksess' = [t \in DbSessions |->
                           IF t = s
                           THEN [pc |-> "looked", raced |-> ksess[s].raced,
                                 user_id |-> user_id, provider |-> provider,
                                 api_key |-> api_key,
                                 encrypted_key |-> encrypt_api_key(api_key, key),
                                 existing_id |-> existing.id,
                                 overlapped |-> others # {}]
                           ELSE IF t \in others
                           THEN [ksess[t] EXCEPT !.overlapped = TRUE]
                           ELSE ksess[t]]
            /\ keygen' = KeygenAfter(keygen)
            /\ last' = [op |-> "store_lookup",
                        args |-> <<user_id, provider, api_key>>,
                        res |-> NoneR, s |-> s]
    /\ UNCHANGED <<moreVars, users, regs, session_state, now, api_keys, next_key_id,
                   latest_key, key_config>>

\* the write to the session's copy: the attribute assignments or session.add
StoreWrite(s) ==
    /\ ksess[s].pc = "looked"
    /\ ksess' = [ksess EXCEPT ![s].pc = "written"]
    /\ last' = [op |-> "store_write", args |-> <<>>, res |-> NoneR, s |-> s]
    /\ UNCHANGED <<moreVars, users, regs, session_state, now, api_keys, next_key_id,
                   latest_key, key_config, keygen>>

\* session.commit(): the UPDATE or INSERT reaches the table
StoreCommit(s) ==
    /\ ksess[s].pc = "written"
    /\ LET c == ksess[s]
           w == StoreFlush(api_keys, c.existing_id, c.user_id, c.provider,
                           c.encrypted_key, next_key_id)
       IN
       /\ w.inserted => next_key_id <= MaxKeyId
       /\ api_keys' = w.rows
       /\ next_key_id' = IF w.inserted THEN next_key_id + 1 ELSE next_key_id
       /\ latest_key' = IF w.ok
                        THEN Forget(latest_key, c.user_id, c.provider)
                                \cup {Latest(c.user_id, c.provider, c.api_key)}
                        ELSE latest_key
       /\ ksess' = [ksess EXCEPT ![s] =
                       IdleStore(IF w.ok /\ c.overlapped
                                 THEN c.raced \cup {<<c.user_id, c.provider>>}
                                 ELSE c.raced)]
       /\ last' = [op |-> "store_user_api_key",
                   args |-> <<c.user_id, c.provider, c.api_key>>,
                   res |-> BoolR(w.ok), s |-> s]
    /\ UNCHANGED <<moreVars, users, regs, session_state, now, key_config, keygen>>

----------------------------------------------------------------------------
(* encrypt_api_key and decrypt_api_key called directly, across restarts *)

\* the most ciphertexts kept
MaxHeld == 2

\* the most server processes run, one after the other
MaxProc == 2

\* the deployments, with one whose 44-character secret is not a Fernet key
CryptConfigs ==
    KeyConfigs \cup {[has_secret |-> TRUE, secret |-> Garbage44, env |-> Unset]}

NoKey == [kind |-> "none", text |-> "", n |-> 0]

\* a string that is no Fernet token at all
NotAToken ==
    [fernet_key |-> NoKey, plaintext |-> [prefix |-> "", len |-> 0, tag |-> ""],
     hmac |-> Hmac(NoKey, NoKey, [prefix |-> "", len |-> 0, tag |-> ""])]

\* a token altered after encrypt_api_key returned it: in its body, in its HMAC
Tampered(token) ==
    {[token EXCEPT !.plaintext = k] : k \in ApiKeyInputs \ {token.plaintext}}
        \cup {[token EXCEPT !.hmac = Hmac(NoKey, token.fernet_key, token.plaintext)]}

\* what decrypt_api_key is handed
DecryptInputs ==
    {h.token : h \in held} \cup UNION {Tampered(h.token) : h \in held}
        \cup {NotAToken}

\* encrypt_api_key: Fernet(key) raises ValueError for a key it rejects
EncryptApiKey(api_key) ==
    /\ keygen < MaxKeygen
    /\ Cardinality(held) < MaxHeld
    /\ LET key == get_or_create_encryption_key(key_config, keygen + 1) IN
       IF FernetAccepts(key)
       THEN /\ held' = held \cup {[token |-> encrypt_api_key(api_key, key),
                                    proc |-> proc]}
            /\ last' = [op |-> "encrypt_api_key", args |-> <<api_key>>,
                        res |-> [kind |-> "token",
                                 token |-> encrypt_api_key(api_key, key)],
                        key |-> key, s |-> 0]
       ELSE /\ held' = held
            /\ last' = [op |-> "encrypt_api_key", args |-> <<api_key>>,
                        res |-> [kind |-> "ValueError"], key |-> key, s |-> 0]
    /\ keygen' = KeygenAfter(keygen)
    /\ UNCHANGED <<restVars, usersVars, uiVars, keysVars, dbVars, key_config, proc>>

\* decrypt_api_key: every exception is caught and gives None
DecryptApiKey(encrypted_key) ==
    /\ keygen < MaxKeygen
    /\ LET key == get_or_create_encryption_key(key_config, keygen + 1) IN
       last' = [op |-> "decrypt_api_key", args |-> <<encrypted_key>>,
                res |-> decrypt_api_key(encrypted_key, key),
                key |-> key, s |-> 0]
    /\ keygen' = KeygenAfter(keygen)
    /\ UNCHANGED <<restVars, usersVars, uiVars, keysVars, dbVars, key_config, held, proc>>

\* the server is restarted, possibly with another key configured
RestartProcess(cfg) ==
    /\ proc < MaxProc
    /\ proc' = proc + 1
    /\ key_config' = cfg
    /\ last' = [op |-> "restart", args |-> <<cfg>>, res |-> NoneR, s |-> 0]
    /\ UNCHANGED <<restVars, usersVars, uiVars, keysVars, dbVars, keygen, held>>

----------------------------------------------------------------------------
(* The llm_configurations table and the bootstrap *)

\* parameters: the temperature in tenths, max_tokens
Params(temperature, max_tokens) ==
    [temperature |-> temperature, max_tokens |-> max_tokens]

Seed(provider, model_name, task_type, priority, parameters) ==
    [provider |-> provider, model_name |-> model_name, task_type |-> task_type,
     priority |-> priority, parameters |-> parameters]

\* default_configs of init_default_llm_configs
DefaultConfigs ==
    <<Seed("openai", "gpt-4-turbo-preview", "code_generation", 1, Params(7, 4000)),
      Seed("openai", "gpt-3.5-turbo", "general_query", 2, Params(5, 2000)),
      Seed("anthropic", "claude-3-opus-20240229", "document_analysis", 1, Params(3, 4000)),
      Seed("anthropic", "claude-3-sonnet-20240229", "code_review", 1, Params(2, 3000)),
      Seed("deepseek", "deepseek-coder-33b", "code_generation", 2, Params(5, 3000)),
      Seed("gemini", "gemini-pro", "multimodal_analysis", 1, Params(4, 3000)),
      Seed("openrouter", "meta-llama/llama-2-70b-chat", "general_query", 3, Params(6, 2000)),
      Seed("qwen", "qwen-72b-chat", "multilingual_processing", 1, Params(5, 3000)),
      Seed("grok", "grok-1", "reasoning", 1, Params(4, 3000))>>

\* filter_by(provider=..., model_name=..., task_type=...)
ConfigsOf(rows, provider, model_name, task_type) ==
    {r \in rows : /\ r.provider = provider
                  /\ r.model_name = model_name
                  /\ r.task_type = task_type}

\* LLMConfiguration(...): is_active takes its column default
NewConfig(id, provider, model_name, task_type, priority, parameters, created_by) ==
    [id |-> id, provider |-> provider, model_name |-> model_name,
     task_type |-> task_type, priority |-> priority, parameters |-> parameters,
     is_active |-> TRUE, created_by |-> created_by]

\* (a seeding loop that never finds an existing configuration)
SeedNeverExists(rows, c) == FALSE

\* init_default_llm_configs, the existence check of one seed
SeedExists(rows, c) ==
    ConfigsOf(rows, c.provider, c.model_name, c.task_type) # {}

\* init_default_llm_configs from the i-th seed on: the rows and the next id
RECURSIVE init_default_llm_configs(_, _, _, _)
init_default_llm_configs(i, rows, admin_id, next_id) ==
    IF i > Len(DefaultConfigs)
    THEN [rows |-> rows, next_id |-> next_id]
    ELSE LET c == DefaultConfigs[i] IN
         IF ~SeedExists(rows, c)
         THEN init_default_llm_configs(
                  i + 1,
                  rows \cup {NewConfig(next_id, c.provider, c.model_name,
                                       c.task_type, c.priority, c.parameters,
                                       admin_id)},
                  admin_id, next_id + 1)
         ELSE init_default_llm_configs(i + 1, rows, admin_id, next_id)

\* the highest llm_configurations.id a run hands out
MaxConfigId == 20

\* a call that raised
Raised(exc) == [kind |-> "raise", exc |-> exc]

\* did only bootstraps (and reads) run since the empty store
OnlyBoot == last.only_boot

\* init_database_tables: init_super_admin, then the seeds under the super
\* admin's id, in one database session; a database error reaches the caller
init_database_tables ==
    /\ IF SessionRaises(db_fault)
       THEN /\ UNCHANGED <<users, llm_configs, next_config_id>>
            /\ last' = [op |-> "init_database_tables", args |-> <<>>,
                        res |-> Raised("OperationalError"), s |-> 0,
                        only_boot |-> OnlyBoot]
       ELSE \E us \in InitSuperAdminRows(users) :
            LET found == UsersByEmail(us, SuperAdminEmail)
                super_admin == CHOOSE i \in found : \A j \in found : i <= j
                seeded == init_default_llm_configs(1, llm_configs, super_admin,
                                                   next_config_id)
            IN
            /\ seeded.next_id <= MaxConfigId + 1
            /\ users' = us
            /\ llm_configs' = seeded.rows
            /\ next_config_id' = seeded.next_id
            /\ last' = [op |-> "init_database_tables", args |-> <<>>,
                        res |-> NoneR, s |-> 0, only_boot |-> OnlyBoot]
    /\ UNCHANGED <<restVars, regs, uiVars, keysVars, key_config, keygen, cryptVars,
                   research_tasks, db_fault, uow>>

\* order_by(priority): the rows grouped by priority, lowest first (the order
\* within one priority is the database's)
OrderByPriority(rows) ==
    LET ps == {r.priority : r \in rows} IN
    [i \in 1..Cardinality(ps) |->
        {r \in rows : Cardinality({q \in ps : q < r.priority}) = i - 1}]

\* get_llm_configurations: a database error reaches the caller
get_llm_configurations(task_type) ==
    /\ LET active == {r \in llm_configs : r.is_active}
           query == IF Truthy(task_type)
                    THEN {r \in active : r.task_type = task_type}
                    ELSE active
       IN last' = [op |-> "get_llm_configurations", args |-> <<task_type>>,
                   res |-> IF ~SessionRaises(db_fault)
                           THEN [kind |-> "list", rows |-> OrderByPriority(query)]
                           ELSE Raised("OperationalError"),
                   s |-> 0, only_boot |-> OnlyBoot]
    /\ UNCHANGED <<restVars, usersVars, uiVars, keysVars, key_config, keygen, cryptVars,
                   dbVars>>

\* (a save that never updates: it inserts a row whatever the lookup returned)
SaveAlwaysInserts(rows, config, provider, model_name, task_type, priority, parameters, created_by, new_id) ==
    [rows |-> rows \cup {NewConfig(new_id, provider, model_name, task_type,
                                   priority, parameters, created_by)},
     inserted |-> TRUE]

\* save_llm_configuration's write, given the row its lookup returned
SaveConfig(rows, config, provider, model_name, task_type, priority, parameters, created_by, new_id) ==
    IF config # NoRow
    THEN [rows |-> (rows \ {config})
                      \cup {[config EXCEPT !.priority = priority,
                                           !.parameters = parameters,
                                           !.created_by = created_by]},
          inserted |-> FALSE]
    ELSE [rows |-> rows \cup {NewConfig(new_id, provider, model_name, task_type,
                                        priority, parameters, created_by)},
          inserted |-> TRUE]

\* save_llm_configuration: every exception is caught and gives False
save_llm_configuration(provider, model_name, task_type, priority, parameters, created_by) ==
    /\ IF SessionRaises(db_fault)
       THEN /\ UNCHANGED <<llm_configs, next_config_id>>
            /\ last' = [op |-> "save_llm_configuration",
                        args |-> <<provider, model_name, task_type, priority,
                                   parameters, created_by>>,
                        res |-> BoolR(FALSE), s |-> 0, only_boot |-> FALSE,
                        db_failed |-> SessionRaises(db_fault)]
       ELSE \E config \in First(ConfigsOf(llm_configs, provider, model_name,
                                          task_type)) :
            LET w == SaveConfig(llm_configs, config, provider, model_name,
                                task_type, priority, parameters, created_by,
                                next_config_id)
            IN
            /\ w.inserted => next_config_id <= MaxConfigId
            /\ llm_configs' = w.rows
            /\ next_config_id' = IF w.inserted THEN next_config_id + 1
                                 ELSE next_config_id
            /\ last' = [op |-> "save_llm_configuration",
                        args |-> <<provider, model_name, task_type, priority,
                                   parameters, created_by>>,
                        res |-> BoolR(TRUE), s |-> 0, only_boot |-> FALSE,
                        db_failed |-> FALSE]
    /\ UNCHANGED <<restVars, usersVars, uiVars, keysVars, key_config, keygen, cryptVars,
                   research_tasks, db_fault, uow>>

\* delete_llm_configuration: every exception is caught and gives False
delete_llm_configuration(config_id) ==
    /\ LET config == {r \in llm_configs : r.id = config_id} IN
       IF ~SessionRaises(db_fault) /\ config # {}
       THEN /\ llm_configs' = llm_configs \ config
            /\ last' = [op |-> "delete_llm_configuration", args |-> <<config_id>>,
                        res |-> BoolR(TRUE), s |-> 0, only_boot |-> FALSE,
                        db_failed |-> FALSE]
       ELSE /\ llm_configs' = llm_configs
            /\ last' = [op |-> "delete_llm_configuration", args |-> <<config_id>>,
                        res |-> BoolR(FALSE), s |-> 0, only_boot |-> FALSE,
                        db_failed |-> SessionRaises(db_fault)]
    /\ UNCHANGED <<restVars, usersVars, uiVars, keysVars, key_config, keygen, cryptVars,
                   next_config_id, research_tasks, db_fault, uow>>

----------------------------------------------------------------------------
(* The research_tasks table *)

\* a DateTime column's value
Stamp(t) == [kind |-> "datetime", t |-> t]

\* the most research tasks created
MaxTasks == 1

\* user_id=None
NoUserId == 0

\* ResearchTask(...): the columns not given stay NULL
NewTask(user_id, task_type, input_type, input_data, status, t) ==
    [user_id |-> user_id, task_type |-> task_type, input_type |-> input_type,
     input_data |-> input_data, status |-> status, result |-> Null,
     error_message |-> Null, processing_time |-> Null, tokens_used |-> Null,
     created_at |-> Stamp(t), completed_at |-> NoneR]

\* save_research_task: the new id, None on any exception (user_id is NOT NULL).
\* `return task.id` follows the commit, which expired the row's attributes: it
\* reads the row back, and that read may fail too
save_research_task(user_id, task_type, input_type, input_data, status) ==
    /\ Len(research_tasks) < MaxTasks
    /\ IF SessionRaises(db_fault) \/ user_id = NoUserId
       THEN /\ research_tasks' = research_tasks
            /\ last' = [op |-> "save_research_task",
                        args |-> <<user_id, task_type, input_type, input_data, status>>,
                        res |-> NoneR, s |-> 0,
                        db_failed |-> SessionRaises(db_fault)]
       ELSE /\ research_tasks' =
                  Append(research_tasks,
                         NewTask(user_id, task_type, input_type, input_data,
                                 status, now))
            /\ last' = [op |-> "save_research_task",
                        args |-> <<user_id, task_type, input_type, input_data, status>>,
                        res |-> IF db_fault = "refresh"
                                THEN NoneR
                                ELSE [kind |-> "id", id |-> Len(research_tasks) + 1],
                        s |-> 0, db_failed |-> db_fault = "refresh"]
    /\ UNCHANGED <<restVars, usersVars, uiVars, keysVars, key_config, keygen, cryptVars,
                   llm_configs, next_config_id, db_fault, uow>>

\* (an update that stamps completed_at whenever a status is given)
UpdateTaskStampsAnyStatus(rows, task_id, status, result, error_message, processing_time, tokens_used, t) ==
    IF task_id \notin 1..Len(rows)
    THEN [rows |-> rows, ok |-> FALSE]
    ELSE LET task == rows[task_id]
             t1 == IF Truthy(status) THEN [task EXCEPT !.status = status] ELSE task
             t2 == IF result # Null THEN [t1 EXCEPT !.result = result] ELSE t1
             t3 == IF Truthy(error_message)
                   THEN [t2 EXCEPT !.error_message = error_message] ELSE t2
             t4 == IF processing_time # Null
                   THEN [t3 EXCEPT !.processing_time = processing_time] ELSE t3
             t5 == IF tokens_used # Null
                   THEN [t4 EXCEPT !.tokens_used = tokens_used] ELSE t4
             t6 == IF Truthy(status)
                   THEN [t5 EXCEPT !.completed_at = Stamp(t)] ELSE t5
         IN [rows |-> [rows EXCEPT ![task_id] = t6], ok |-> TRUE]

\* update_research_task's writes: the table after the call and what it returns
UpdateTask(rows, task_id, status, result, error_message, processing_time, tokens_used, t) ==
    IF task_id \notin 1..Len(rows)
    THEN [rows |-> rows, ok |-> FALSE]
    ELSE LET task == rows[task_id]
             t1 == IF Truthy(status) THEN [task EXCEPT !.status = status] ELSE task
             t2 == IF result # Null THEN [t1 EXCEPT !.result = result] ELSE t1
             t3 == IF Truthy(error_message)
                   THEN [t2 EXCEPT !.error_message = error_message] ELSE t2
             t4 == IF processing_time # Null
                   THEN [t3 EXCEPT !.processing_time = processing_time] ELSE t3
             t5 == IF tokens_used # Null
                   THEN [t4 EXCEPT !.tokens_used = tokens_used] ELSE t4
             t6 == IF status = "completed"
                   THEN [t5 EXCEPT !.completed_at = Stamp(t)] ELSE t5
         IN [rows |-> [rows EXCEPT ![task_id] = t6], ok |-> TRUE]

\* update_research_task: every exception is caught and gives False
update_research_task(task_id, status, result, error_message, processing_time, tokens_used) ==
    /\ LET w == IF SessionRaises(db_fault)
                THEN [rows |-> research_tasks, ok |-> FALSE]
                ELSE UpdateTask(research_tasks, task_id, status, result,
                                error_message, processing_time, tokens_used, now)
       IN
       /\ research_tasks' = w.rows
       /\ last' = [op |-> "update_research_task",
                   args |-> <<task_id, status, result, error_message,
                              processing_time, tokens_used>>,
                   res |-> BoolR(w.ok), s |-> 0,
                   db_failed |-> SessionRaises(db_fault)]
    /\ UNCHANGED <<restVars, usersVars, uiVars, keysVars, key_config, keygen, cryptVars,
                   llm_configs, next_config_id, db_fault, uow>>

----------------------------------------------------------------------------
(* get_db_session: a block of work on research_tasks in one session *)

\* the most changes pending in a session
MaxPending == 2

\* session.add(task)
AddTask(row) == [kind |-> "add", row |-> row]

\* task.status = status, on a row the session loaded
SetStatus(task_id, status) == [kind |-> "set_status", task_id |-> task_id, status |-> status]

\* the table after a session's pending changes are written, in their order
RECURSIVE Flush(_, _)
Flush(rows, pending) ==
    IF pending = <<>>
    THEN rows
    ELSE LET c == Head(pending) IN
         Flush(IF c.kind = "add"
               THEN Append(rows, c.row)
               ELSE [rows EXCEPT ![c.task_id].status = c.status],
               Tail(pending))

\* how the body of the with block ends: it returns, it raises an Exception, it
\* raises a BaseException that is no Exception (Streamlit's rerun and stop)
BodyEnds ==
    {[kind |-> "returns", exc |-> ""],
     [kind |-> "Exception", exc |-> "ValueError"],
     [kind |-> "Exception", exc |-> "OperationalError"],
     [kind |-> "BaseException", exc |-> "RerunException"]}

\* (a get_db_session whose except clause is missing: it commits in every case)
ExitAlwaysCommits(rows, pending, body_end, fault) ==
    [rows |-> Flush(rows, pending),
     res |-> IF body_end.kind = "returns" THEN NoneR ELSE Raised(body_end.exc),
     rolled_back |-> FALSE, closed |-> TRUE]

\* get_db_session after the yield: commit; on an Exception (the body's or the
\* commit's) rollback and raise it again; close in every case, which discards
\* what is still pending
GetDbSessionExit(rows, pending, body_end, fault) ==
    IF body_end.kind = "returns"
    THEN IF fault = "none"
         THEN [rows |-> Flush(rows, pending), res |-> NoneR,
               rolled_back |-> FALSE, closed |-> TRUE]
         ELSE [rows |-> rows, res |-> Raised("OperationalError"),
               rolled_back |-> TRUE, closed |-> TRUE]
    ELSE IF body_end.kind = "Exception"
    THEN [rows |-> rows, res |-> Raised(body_end.exc),
          rolled_back |-> TRUE, closed |-> TRUE]
    ELSE [rows |-> rows, res |-> Raised(body_end.exc),
          rolled_back |-> FALSE, closed |-> TRUE]

ClosedSession == [pc |-> "closed", pending |-> <<>>]

\* with get_db_session() as session: up to the yield
UowEnter ==
    /\ uow.pc = "closed"
    /\ db_fault # "query"
    /\ uow' = [pc |-> "open", pending |-> <<>>]
    /\ last' = [op |-> "get_db_session_enter", args |-> <<>>, res |-> NoneR, s |-> 0]
    /\ UNCHANGED <<restVars, usersVars, uiVars, keysVars, key_config, keygen, cryptVars,
                   llm_configs, next_config_id, research_tasks, db_fault>>

\* the body changes something in the session
UowChange(c) ==
    /\ uow.pc = "open"
    /\ Len(uow.pending) < MaxPending
    /\ c.kind = "add" =>
          Len(Flush(research_tasks, uow.pending)) < MaxTasks + 1
    /\ c.kind = "set_status" =>
          c.task_id \in 1..Len(Flush(research_tasks, uow.pending))
    /\ uow' = [uow EXCEPT !.pending = Append(@, c)]
    /\ last' = [op |-> "session_change", args |-> <<c>>, res |-> NoneR, s |-> 0]
    /\ UNCHANGED <<restVars, usersVars, uiVars, keysVars, key_config, keygen, cryptVars,
                   llm_configs, next_config_id, research_tasks, db_fault>>

\* the body calls session.commit() itself
UowCommitInBody ==
    /\ uow.pc = "open"
    /\ db_fault = "none"
    /\ research_tasks' = Flush(research_tasks, uow.pending)
    /\ uow' = [uow EXCEPT !.pending = <<>>]
    /\ last' = [op |-> "session_commit", args |-> <<>>, res |-> NoneR, s |-> 0]
    /\ UNCHANGED <<restVars, usersVars, uiVars, keysVars, key_config, keygen, cryptVars,
                   llm_configs, next_config_id, db_fault>>

\* the body ends and get_db_session runs to its end
UowExit(body_end) ==
    /\ uow.pc = "open"
    /\ LET x == GetDbSessionExit(research_tasks, uow.pending, body_end, db_fault) IN
       /\ research_tasks' = x.rows
       /\ uow' = [pc |-> IF x.closed THEN "closed" ELSE "open", pending |-> <<>>]
       /\ last' = [op |-> "get_db_session_exit", args |-> <<body_end>>,
                   res |-> x.res, s |-> 0, rolled_back |-> x.rolled_back,
                   pending |-> uow.pending]
    /\ UNCHANGED <<restVars, usersVars, uiVars, keysVars, key_config, keygen, cryptVars,
                   llm_configs, next_config_id, db_fault>>

\* the database starts or stops failing
DbFault(fault) ==
    /\ db_fault # fault
    /\ db_fault' = fault
    /\ last' = [op |-> "db_fault", args |-> <<fault>>, res |-> NoneR, s |-> 0]
    /\ UNCHANGED <<restVars, usersVars, uiVars, keysVars, key_config, keygen, cryptVars,
                   llm_configs, next_config_id, research_tasks, uow>>

----------------------------------------------------------------------------
(* Analytics collectors (src/analytics/collectors.py) *)

\* the most rows kept in each analytics table
MaxRows == 2

\* None for an Optional[int] count
NoCount == -1

\* AnalyticsCollector.get_session_info: the user and session ids are read from
\* st.session_state under the names user_id and session_id; the address and the
\* agent depend on the server.headless option
get_session_info(ss, headless) ==
    [user_id |-> IF "user_id" \in DOMAIN ss THEN ss["user_id"] ELSE NoUserId,
     session_id |-> IF "session_id" \in DOMAIN ss THEN ss["session_id"] ELSE Null,
     ip_address |-> IF headless THEN "unknown" ELSE "127.0.0.1",
     user_agent |-> IF headless THEN "Streamlit-App" ELSE "Streamlit-Local"]

\* "Use provided user_id or get from session"
ResolveUserId(user_id, info) == IF user_id = NoUserId THEN info.user_id ELSE user_id

\* (a collector that never skips: it tries to record anonymous calls too)
NeverAnonymous(uid) == FALSE

\* "Skip tracking if no user_id"
IsAnonymous(uid) == uid = NoUserId

\* str(e) of the exception an insert ends with: the database is failing, or a
\* NOT NULL column was given None
InsertError(fault, uid, not_null) ==
    IF SessionRaises(fault) THEN "OperationalError"
    ELSE IF uid = NoUserId \/ \E i \in 1..Len(not_null) : not_null[i] = Null
    THEN "IntegrityError"
    ELSE ""

\* a call of track_error made by another collector's handler
ErrorCall(error_type, severity) == [error_type |-> error_type, severity |-> severity]

\* track_error: one error_logs row, under the session's user id if it has one;
\* its own failure is printed, never raised
track_error(errors, error_type, error_message, severity, info, fault) ==
    IF SessionRaises(fault)
    THEN errors
    ELSE Append(errors, [user_id |-> info.user_id, error_type |-> error_type,
                         error_message |-> error_message, severity |-> severity,
                         user_agent |-> info.user_agent,
                         ip_address |-> info.ip_address])

\* track_user_activity: the two tables and the value returned
TrackUserActivity(activities, errors, activity_type, page, details, user_id, ss, headless, fault, t) ==
    LET info == get_session_info(ss, headless)
        uid == ResolveUserId(user_id, info)
        e == InsertError(fault, uid, <<activity_type>>)
    IN
    IF IsAnonymous(uid)
    THEN [activities |-> activities, errors |-> errors, ok |-> FALSE,
          failed |-> FALSE, nested |-> <<>>]
    ELSE IF e # ""
    THEN [activities |-> activities,
          errors |-> track_error(errors, "analytics_tracking_error", e, "warning",
                                 info, fault),
          ok |-> FALSE, failed |-> TRUE,
          nested |-> <<ErrorCall("analytics_tracking_error", "warning")>>]
    ELSE [activities |-> Append(activities,
                                [user_id |-> uid, activity_type |-> activity_type,
                                 page |-> page, details |-> details,
                                 ip_address |-> info.ip_address,
                                 user_agent |-> info.user_agent,
                                 session_id |-> info.session_id,
                                 created_at |-> Stamp(t)]),
          errors |-> errors, ok |-> TRUE, failed |-> FALSE, nested |-> <<>>]

track_user_activity(activity_type, page, details, user_id, headless) ==
    LET w == TrackUserActivity(user_activities, error_logs, activity_type, page,
                               details, user_id, session_state, headless,
                               db_fault, now)
    IN
    /\ Len(w.activities) <= MaxRows
    /\ Len(w.errors) <= MaxRows
    /\ user_activities' = w.activities
    /\ error_logs' = w.errors
    /\ last' = [op |-> "track_user_activity",
                args |-> <<activity_type, page, details, user_id>>,
                res |-> BoolR(w.ok), s |-> 0, failed |-> w.failed,
                nested |-> w.nested]
    /\ UNCHANGED <<metricsVars, providerVars, usersVars, uiVars, keysVars, key_config, keygen,
                   cryptVars, dbVars, api_usage_logs, tracker>>

\* total_tokens: the sum of the counts given
TotalTokens(input_tokens, output_tokens) ==
    IF input_tokens # NoCount /\ output_tokens # NoCount
    THEN input_tokens + output_tokens
    ELSE IF input_tokens # NoCount THEN input_tokens
    ELSE IF output_tokens # NoCount THEN output_tokens
    ELSE 0

\* the ApiUsageLog row of a call: a holds the keyword arguments
UsageRow(uid, a, t) ==
    [user_id |-> uid, provider |-> a.provider, model_name |-> a.model_name,
     task_type |-> a.task_type, request_type |-> a.request_type,
     input_tokens |-> a.input_tokens, output_tokens |-> a.output_tokens,
     total_tokens |-> TotalTokens(a.input_tokens, a.output_tokens),
     response_time_ms |-> a.response_time_ms, success |-> a.success,
     error_message |-> a.error_message, cost_estimate |-> a.cost_estimate,
     created_at |-> Stamp(t)]

\* track_api_usage: the two tables and the value returned
TrackApiUsage(logs, errors, a, user_id, ss, headless, fault, t) ==
    LET info == get_session_info(ss, headless)
        uid == ResolveUserId(user_id, info)
        e == InsertError(fault, uid, <<a.provider, a.model_name>>)
    IN
    IF IsAnonymous(uid)
    THEN [logs |-> logs, errors |-> errors, ok |-> FALSE, failed |-> FALSE,
          nested |-> <<>>]
    ELSE IF e # ""
    THEN [logs |-> logs,
          errors |-> track_error(errors, "api_usage_tracking_error", e, "warning",
                                 info, fault),
          ok |-> FALSE, failed |-> TRUE,
          nested |-> <<ErrorCall("api_usage_tracking_error", "warning")>>]
    ELSE [logs |-> Append(logs, UsageRow(uid, a, t)), errors |-> errors, ok |-> TRUE,
          failed |-> FALSE, nested |-> <<>>]

track_api_usage(a, user_id, headless) ==
    LET w == TrackApiUsage(api_usage_logs, error_logs, a, user_id, session_state,
                           headless, db_fault, now)
    IN
    /\ Len(w.logs) <= MaxRows
    /\ Len(w.errors) <= MaxRows
    /\ api_usage_logs' = w.logs
    /\ error_logs' = w.errors
    /\ last' = [op |-> "track_api_usage", args |-> <<a, user_id>>,
                res |-> BoolR(w.ok), s |-> 0, failed |-> w.failed,
                nested |-> w.nested]
    /\ UNCHANGED <<metricsVars, providerVars, usersVars, uiVars, keysVars, key_config, keygen,
                   cryptVars, dbVars, user_activities, tracker>>

\* str(e) of the exception an insert without a NOT NULL user ends with
NotNullError(fault, not_null) ==
    IF SessionRaises(fault) THEN "OperationalError"
    ELSE IF \E i \in 1..Len(not_null) : not_null[i] = Null THEN "IntegrityError"
    ELSE ""

\* (a track_performance whose handler only returns False)
TrackPerformanceSwallows(metrics, errors, page, load_time_ms, user_id, ss, headless, fault, t) ==
    [metrics |-> metrics, errors |-> errors, ok |-> FALSE,
     failed |-> NotNullError(fault, <<page, load_time_ms>>) # "", nested |-> <<>>]

\* track_performance: the two tables, the value returned, the calls of
\* track_error its handler made; an anonymous caller is recorded too
TrackPerformance(metrics, errors, page, load_time_ms, user_id, ss, headless, fault, t) ==
    LET info == get_session_info(ss, headless)
        uid == ResolveUserId(user_id, info)
        e == NotNullError(fault, <<page, load_time_ms>>)
    IN
    IF e # ""
    THEN [metrics |-> metrics,
          errors |-> track_error(errors, "performance_tracking_error", e, "warning",
                                 info, fault),
          ok |-> FALSE, failed |-> TRUE,
          nested |-> <<ErrorCall("performance_tracking_error", "warning")>>]
    ELSE [metrics |-> Append(metrics,
                             [user_id |-> uid, page |-> page,
                              load_time_ms |-> load_time_ms,
                              user_agent |-> info.user_agent,
                              created_at |-> Stamp(t)]),
          errors |-> errors, ok |-> TRUE, failed |-> FALSE, nested |-> <<>>]

track_performance(page, load_time_ms, user_id, headless) ==
    LET w == TrackPerformance(performance_metrics, error_logs, page, load_time_ms,
                              user_id, session_state, headless, db_fault, now)
    IN
    /\ Len(w.metrics) <= MaxRows
    /\ Len(w.errors) <= MaxRows
    /\ performance_metrics' = w.metrics
    /\ error_logs' = w.errors
    /\ last' = [op |-> "track_performance",
                args |-> <<page, load_time_ms, user_id>>,
                res |-> BoolR(w.ok), s |-> 0, failed |-> w.failed,
                nested |-> w.nested]
    /\ UNCHANGED <<providerVars, usersVars, uiVars, keysVars, key_config, keygen,
                   cryptVars, dbVars, user_activities, api_usage_logs, tracker,
                   system_metrics>>

\* track_system_metrics: its failure is printed, no other collector is called
track_system_metrics(metric_type, metric_name, value, unit) ==
    LET e == NotNullError(db_fault, <<metric_type, metric_name, value>>) IN
    /\ Len(system_metrics) < MaxRows
    /\ system_metrics' =
          IF e # "" THEN system_metrics
          ELSE Append(system_metrics,
                      [metric_type |-> metric_type, metric_name |-> metric_name,
                       value |-> value, unit |-> unit, created_at |-> Stamp(now)])
    /\ last' = [op |-> "track_system_metrics",
                args |-> <<metric_type, metric_name, value, unit>>,
                res |-> BoolR(e = ""), s |-> 0, failed |-> e # "",
                nested |-> <<>>, printed |-> e # ""]
    /\ UNCHANGED <<providerVars, usersVars, uiVars, keysVars, key_config, keygen,
                   cryptVars, dbVars, analyticsVars, performance_metrics>>

\* track_error called by the application itself: its failure (the database, a
\* NOT NULL column given None) is printed, no other collector is called
call_track_error(error_type, error_message, severity, user_id, headless) ==
    LET info == get_session_info(session_state, headless)
        e == NotNullError(db_fault, <<error_type, error_message>>)
        row == [user_id |-> ResolveUserId(user_id, info), error_type |-> error_type,
                error_message |-> error_message, severity |-> severity,
                user_agent |-> info.user_agent, ip_address |-> info.ip_address]
    IN
    /\ Len(error_logs) < MaxRows
    /\ error_logs' = IF e # "" THEN error_logs ELSE Append(error_logs, row)
    /\ last' = [op |-> "track_error",
                args |-> <<error_type, error_message, severity, user_id>>,
                res |-> BoolR(e = ""), s |-> 0, failed |-> e # "",
                nested |-> <<>>, printed |-> e # ""]
    /\ UNCHANGED <<metricsVars, providerVars, usersVars, uiVars, keysVars, key_config,
                   keygen, cryptVars, dbVars, user_activities, api_usage_logs,
                   tracker>>

\* milliseconds in one unit of the clock
MsPerHour == 3600000

\* APICallTracker.__init__
APICallTracker(provider, model_name, task_type, t) ==
    [provider |-> provider, model_name |-> model_name, task_type |-> task_type,
     start_time |-> t, input_tokens |-> NoCount, output_tokens |-> NoCount,
     cost_estimate |-> Null, success |-> TRUE, error_message |-> Null]

\* APICallTracker.set_error
set_error(tr, error_message) ==
    [tr EXCEPT !.success = FALSE, !.error_message = error_message]

\* with track_api_call(provider, model_name, task_type) as tracker: the scope opens
track_api_call_enter(provider, model_name, task_type) ==
    /\ tracker = NoneR
    /\ tracker' = APICallTracker(provider, model_name, task_type, now)
    /\ last' = [op |-> "track_api_call_enter",
                args |-> <<provider, model_name, task_type>>, res |-> NoneR, s |-> 0]
    /\ UNCHANGED <<metricsVars, providerVars, usersVars, uiVars, keysVars, key_config, keygen,
                   cryptVars, dbVars, user_activities, api_usage_logs, error_logs>>

\* tracker.set_tokens(...) in the body
set_tokens(input_tokens, output_tokens) ==
    /\ tracker # NoneR
    /\ tracker' = [tracker EXCEPT !.input_tokens = input_tokens,
                                  !.output_tokens = output_tokens]
    /\ last' = [op |-> "set_tokens", args |-> <<input_tokens, output_tokens>>,
                res |-> NoneR, s |-> 0]
    /\ UNCHANGED <<metricsVars, providerVars, usersVars, uiVars, keysVars, key_config, keygen,
                   cryptVars, dbVars, user_activities, api_usage_logs, error_logs>>

\* tracker.set_cost(...) in the body
set_cost(cost) ==
    /\ tracker # NoneR
    /\ tracker' = [tracker EXCEPT !.cost_estimate = cost]
    /\ last' = [op |-> "set_cost", args |-> <<cost>>, res |-> NoneR, s |-> 0]
    /\ UNCHANGED <<metricsVars, providerVars, usersVars, uiVars, keysVars, key_config, keygen,
                   cryptVars, dbVars, user_activities, api_usage_logs, error_logs>>

\* the keyword arguments track_api_call hands to track_api_usage when the body
\* has ended: only an Exception passes through set_error
UsageOfTracker(tr, body_end, t) ==
    LET final == IF body_end.kind = "Exception" THEN set_error(tr, body_end.exc)
                 ELSE tr
    IN
    [provider |-> final.provider, model_name |-> final.model_name,
     task_type |-> final.task_type, request_type |-> "completion",
     input_tokens |-> final.input_tokens, output_tokens |-> final.output_tokens,
     response_time_ms |-> (t - final.start_time) * MsPerHour,
     success |-> final.success, error_message |-> final.error_message,
     cost_estimate |-> final.cost_estimate]

\* the scope closes: the finally clause calls track_api_usage without a user_id,
\* and what the body raised goes on to the caller
track_api_call_exit(body_end, headless) ==
    LET a == UsageOfTracker(tracker, body_end, now)
        w == TrackApiUsage(api_usage_logs, error_logs, a, NoUserId, session_state,
                           headless, db_fault, now)
    IN
    /\ tracker # NoneR
    /\ Len(w.logs) <= MaxRows
    /\ Len(w.errors) <= MaxRows
    /\ api_usage_logs' = w.logs
    /\ error_logs' = w.errors
    /\ tracker' = NoneR
    /\ last' = [op |-> "track_api_call", args |-> <<body_end>>,
                res |-> IF body_end.kind = "returns" THEN NoneR
                        ELSE Raised(body_end.exc),
                s |-> 0, usage |-> a, tracked |-> w.ok]
    /\ UNCHANGED <<metricsVars, providerVars, usersVars, uiVars, keysVars, key_config, keygen,
                   cryptVars, dbVars, user_activities>>

----------------------------------------------------------------------------
(* LLM provider adapters and their factory (src/providers) *)

\* the adapters that talk HTTP through requests
HttpAdapters ==
    {"DeepSeekProvider", "GrokProvider", "OpenRouterProvider", "QwenProvider"}

\* LLMProviderFactory._providers as the class is defined
BuiltinProviders ==
    [n \in {"deepseek", "gemini", "openrouter", "qwen", "grok"} |->
        CASE n = "deepseek" -> "DeepSeekProvider"
          [] n = "gemini" -> "GeminiProvider"
          [] n = "openrouter" -> "OpenRouterProvider"
          [] n = "qwen" -> "QwenProvider"
          [] n = "grok" -> "GrokProvider"]

\* LLMProviderFactory._default_models as the class is defined
BuiltinDefaultModels ==
    [n \in {"deepseek", "gemini", "openrouter", "qwen", "grok"} |->
        CASE n = "deepseek" -> "deepseek-coder"
          [] n = "gemini" -> "gemini-pro"
          [] n = "openrouter" -> "meta-llama/llama-2-70b-chat"
          [] n = "qwen" -> "qwen-turbo"
          [] n = "grok" -> "grok-1"]

\* the default of the model_name parameter of each adapter's __init__
ClassDefaultModel(class) ==
    CASE class = "DeepSeekProvider" -> "deepseek-coder"
      [] class = "GeminiProvider" -> "gemini-pro"
      [] class = "OpenRouterProvider" -> "meta-llama/llama-2-70b-chat"
      [] class = "QwenProvider" -> "qwen-turbo"
      [] class = "GrokProvider" -> "grok-1"
      [] class = "OpenAIProviderWrapper" -> "gpt-4-turbo-preview"
      [] class = "AnthropicProviderWrapper" -> "claude-3-sonnet-20240229"

\* the name each _validate_api_key puts into "Invalid ... API key"
KeyErrorMessage(class) ==
    CASE class = "DeepSeekProvider" -> "Invalid DeepSeek API key"
      [] class = "GeminiProvider" -> "Invalid Google AI API key"
      [] class = "OpenRouterProvider" -> "Invalid OpenRouter API key"
      [] class = "QwenProvider" -> "Invalid Qwen API key"
      [] class = "GrokProvider" -> "Invalid xAI API key"
      [] class = "OpenAIProviderWrapper" -> "Invalid OpenAI API key"
      [] class = "AnthropicProviderWrapper" -> "Invalid Anthropic API key"

\* an api_key of None or ""
EmptyKey == [prefix |-> "", len |-> 0, tag |-> ""]

\* the shortest key the adapters accept
MinKeyLen == 20

\* _validate_api_key: does the key pass the adapter's shape check
ValidApiKey(class, api_key) ==
    IF api_key.len = 0 THEN FALSE
    ELSE IF class = "OpenAIProviderWrapper" THEN StartsWith(api_key, "sk-")
    ELSE IF class = "AnthropicProviderWrapper" THEN StartsWith(api_key, "sk-ant-")
    ELSE api_key.len >= MinKeyLen

\* an exception: its type, its message, and whether "api key" is found in the
\* lower-cased message
Exc(exc, msg, api_key_in_msg) ==
    [kind |-> "raise", exc |-> exc, msg |-> msg, api_key_in_msg |-> api_key_in_msg]

\* how the client library behind an adapter answers when the adapter is
\* built: it works, it raises, it raises with a message about the API key
ClientOutcomes == {"ok", "raises", "raises_api_key"}

\* provider_class(api_key=..., model_name=...): LLMProvider.__init__ stores the
\* arguments and validates the key; Gemini and the two wrappers then build their
\* client. steps lists what ran
Construct(class, api_key, model_name, client) ==
    LET model == IF model_name = "" /\ class \notin {"OpenAIProviderWrapper",
                                                     "AnthropicProviderWrapper"}
                 THEN ClassDefaultModel(class) ELSE model_name
        built == [kind |-> "adapter", class |-> class, api_key |-> api_key,
                  model_name |-> model]
    IN
    IF ~ValidApiKey(class, api_key)
    THEN [res |-> Exc("APIKeyError", KeyErrorMessage(class), TRUE),
          steps |-> <<"_validate_api_key">>]
    ELSE IF class \in HttpAdapters
    THEN [res |-> built, steps |-> <<"_validate_api_key">>]
    ELSE IF client = "ok"
    THEN [res |-> built, steps |-> <<"_validate_api_key", "client">>]
    ELSE [res |-> Exc(IF class = "GeminiProvider" THEN "ModelNotFoundError"
                      ELSE "ClientError",
                      "client", client = "raises_api_key"),
          steps |-> <<"_validate_api_key", "client">>]

\* (a factory that hands the model name on as given)
ModelAsGiven(defaults, provider_name, model_name) == model_name

\* "Use default model if not specified": _default_models.get(provider_name)
ModelOrDefault(defaults, provider_name, model_name) ==
    IF model_name # "" THEN model_name
    ELSE IF provider_name \in DOMAIN defaults THEN defaults[provider_name]
    ELSE ""

\* LLMProviderFactory.create_provider
CreateProvider(registry, defaults, provider_name, api_key, model_name, client) ==
    IF provider_name \notin DOMAIN registry
    THEN [res |-> [kind |-> "raise", exc |-> "ValueError", msg |-> "not found",
                   api_key_in_msg |-> FALSE, provider |-> provider_name,
                   available |-> DOMAIN registry],
          steps |-> <<>>]
    ELSE
      LET c == Construct(registry[provider_name], api_key,
                         ModelOrDefault(defaults, provider_name, model_name), client)
      IN
      IF c.res.kind = "raise" /\ c.res.api_key_in_msg
      THEN [res |-> Exc("APIKeyError", "Invalid API key for provider", TRUE),
            steps |-> c.steps]
      ELSE c

\* the most HTTP requests counted
MaxCalls == 2

create_provider(provider_name, api_key, model_name, client) ==
    LET w == CreateProvider(providers, default_models, provider_name, api_key,
                            model_name, client)
    IN
    /\ adapter' = IF w.res.kind = "adapter" THEN w.res ELSE adapter
    /\ last' = [op |-> "create_provider",
                args |-> <<provider_name, api_key, model_name>>,
                res |-> w.res, s |-> 0, steps |-> w.steps]
    /\ UNCHANGED <<usersVars, uiVars, keysVars, key_config, keygen, cryptVars,
                   dbVars, analyticsVars, metricsVars, providers, default_models, net_calls>>

\* LLMProviderFactory.register_provider: a default_model of None keeps the
\* default the name had
register_provider(name, provider_class, default_model) ==
    /\ providers' = Put(providers, name, provider_class)
    /\ default_models' = IF default_model # ""
                         THEN Put(default_models, name, default_model)
                         ELSE default_models
    /\ last' = [op |-> "register_provider",
                args |-> <<name, provider_class, default_model>>,
                res |-> NoneR, s |-> 0]
    /\ UNCHANGED <<usersVars, uiVars, keysVars, key_config, keygen, cryptVars,
                   dbVars, analyticsVars, metricsVars, adapter, net_calls>>

\* the four typed errors of base_provider.py
TypedErrors ==
    {"APIKeyError", "ModelNotFoundError", "RateLimitError", "ProviderTimeoutError"}

\* a JSON body: json says whether it parses and to what; the other fields say
\* how each key the adapters read is present in a parsed object
Body(json, error, code, choices, output) ==
    [json |-> json, error |-> error, code |-> code, choices |-> choices,
     output |-> output]

\* the bodies of a 200 answer: complete ones, error payloads, and ones with
\* parts missing, empty or null
Bodies ==
    {Body("object", "absent", "absent", "text", "absent"),
     Body("object", "absent", "200", "absent", "text"),
     Body("object", "absent", "absent", "absent", "absent"),
     Body("object", "absent", "absent", "empty", "empty"),
     Body("object", "absent", "absent", "no_message", "no_text"),
     Body("object", "absent", "absent", "null_content", "null_text"),
     Body("object", "object", "Throttling", "absent", "absent"),
     Body("object", "string", "absent", "absent", "absent"),
     Body("null", "absent", "absent", "absent", "absent"),
     Body("malformed", "absent", "absent", "absent", "absent")}

\* what requests.post ends with: an exception of requests, or a response
HttpOutcomes ==
    {[kind |-> "Timeout", status_code |-> 0, body |-> Body("malformed", "absent", "absent", "absent", "absent")],
     [kind |-> "ConnectionError", status_code |-> 0, body |-> Body("malformed", "absent", "absent", "absent", "absent")]}
      \cup {[kind |-> "response", status_code |-> sc,
             body |-> Body("object", "object", "absent", "absent", "absent")] :
               sc \in {401, 402, 404, 429, 500}}
      \cup {[kind |-> "response", status_code |-> 200, body |-> b] : b \in Bodies}

\* the `provider` entry of the bundle an adapter returns
ProviderOf(class) ==
    CASE class = "DeepSeekProvider" -> "deepseek"
      [] class = "GrokProvider" -> "grok"
      [] class = "OpenRouterProvider" -> "openrouter"
      [] class = "QwenProvider" -> "qwen"

\* the bundle generate returns
ResultBundle(a) ==
    [kind |-> "result", provider |-> ProviderOf(a.class), model |-> a.model_name]

\* the if/elif chain on response.status_code: the error raised, "" for 200
StatusError(class, status_code) ==
    IF status_code = 401 THEN "APIKeyError"
    ELSE IF status_code = 404 THEN "ModelNotFoundError"
    ELSE IF status_code = 429 THEN "RateLimitError"
    ELSE IF status_code = 402 /\ class = "OpenRouterProvider" THEN "RateLimitError"
    ELSE IF status_code # 200 THEN "ProviderTimeoutError"
    ELSE ""

\* result['choices'][0]['message']['content'] and the token estimate, once
\* 'choices' is known to be a non-empty list
ReadChoice(a, b) ==
    IF b.choices = "no_message" THEN Raised("KeyError")
    ELSE IF b.choices = "null_content" THEN Raised("TypeError")
    ELSE ResultBundle(a)

\* the part of generate after response.json(), for the three adapters of the
\* chat/completions format
ReadChatCompletion(a, b) ==
    IF b.json = "null" THEN Raised("TypeError")
    ELSE IF a.class # "DeepSeekProvider" /\ b.error = "object"
    THEN Raised("ProviderTimeoutError")
    ELSE IF a.class # "DeepSeekProvider" /\ b.error = "string"
    THEN Raised("AttributeError")
    ELSE IF b.choices \in {"absent", "empty"} THEN Raised("ProviderTimeoutError")
    ELSE ReadChoice(a, b)

\* the same part of QwenProvider.generate
ReadQwen(a, b) ==
    IF b.json = "null" THEN Raised("TypeError")
    ELSE IF b.code \notin {"absent", "200"} THEN Raised("ProviderTimeoutError")
    ELSE IF b.output \in {"absent", "empty", "no_text"}
    THEN Raised("ProviderTimeoutError")
    ELSE IF b.output = "null_text" THEN Raised("TypeError")
    ELSE ResultBundle(a)

\* generate of an HTTP adapter, given what requests.post ends with
Generate(a, http) ==
    IF http.kind \in {"Timeout", "ConnectionError"} THEN Raised("ProviderTimeoutError")
    ELSE IF StatusError(a.class, http.status_code) # ""
    THEN Raised(StatusError(a.class, http.status_code))
    ELSE IF http.body.json = "malformed" THEN Raised("ProviderTimeoutError")
    ELSE IF a.class = "QwenProvider" THEN ReadQwen(a, http.body)
    ELSE ReadChatCompletion(a, http.body)

\* adapter.generate(prompt): one HTTP request
generate(http) ==
    /\ adapter # NoneR
    /\ adapter.class \in HttpAdapters
    /\ net_calls < MaxCalls
    /\ net_calls' = net_calls + 1
    /\ last' = [op |-> "generate", args |-> <<http>>, res |-> Generate(adapter, http),
                s |-> 0, class |-> adapter.class]
    /\ UNCHANGED <<usersVars, uiVars, keysVars, key_config, keygen, cryptVars,
                   dbVars, analyticsVars, metricsVars, providers, default_models, adapter>>

----------------------------------------------------------------------------
(* The Home and Results pages (src/pages/1_🏠_Home.py, 5_📊_Results.py) *)

\* the names src/utils/database.py defines
UtilsDatabaseNames ==
    {"get_database_url", "init_database_engine", "get_db_session",
     "init_database_tables", "get_user_by_email", "get_user_by_id",
     "get_all_users", "update_user_admin_status", "get_llm_configurations",
     "save_llm_configuration", "delete_llm_configuration", "save_research_task",
     "update_research_task", "get_user_research_tasks"}

\* `from utils.database import ...` at the top of the Results page
ResultsPageImports ==
    {"get_db_session", "save_research_task", "update_research_task",
     "get_user_api_key"}

\* from module import names: ImportError when the module lacks one of them
ImportRaises(names, module) == names \ module # {}

\* task_id = None
NoTaskId == 0

\* the payload the simulated pipeline produces
MockResult == "{summary: Research analysis completed successfully}"

\* the Start Processing button of the Home page, shown to a logged-in user
StartProcessing(text, url) ==
    LET chk == check_authentication(session_state, now) IN
    /\ chk.res # NoneR
    /\ text # "" \/ url # ""
    /\ session_state' = Put(chk.ss, "processing_input",
                            [text |-> text, url |-> url, file |-> Null,
                             user_id |-> chk.res.user_id])
    /\ last' = [op |-> "start_processing", args |-> <<text, url>>, res |-> NoneR,
                s |-> 0]
    /\ UNCHANGED <<moreVars, users, regs, now, api_keys, next_key_id, ksess,
                   latest_key, key_config, keygen>>

\* save_research_task as process_input calls it: the table and the id returned
SaveTask(rows, user_id, input_type, input_data, fault, t) ==
    IF SessionRaises(fault)
    THEN [rows |-> rows, task_id |-> NoTaskId]
    ELSE [rows |-> Append(rows, NewTask(user_id, "general_research", input_type,
                                        input_data, "processing", t)),
          task_id |-> IF fault = "refresh" THEN NoTaskId ELSE Len(rows) + 1]

\* how a run of the simulated pipeline ends: it finishes its six steps, or the
\* browser leaves (refresh, navigation) while it sleeps
RunEnds == {"finishes", "abandoned"}

\* seconds the six steps sleep
ProcessingSeconds == 12

\* process_input: the session state and the task table after it
process_input(ss, tasks, keys, key, user, fault, run_end, t) ==
    LET input_data == ss["processing_input"]
        has(provider) ==
            /\ fault # "query"
            /\ \E r \in GetResults(keys, user.user_id, provider, key) : r # NoneR
        saved == SaveTask(tasks, user.user_id,
                          IF input_data.text # "" THEN "text"
                          ELSE IF input_data.url # "" THEN "url" ELSE "file",
                          input_data.text, fault, t)
        updated == IF SessionRaises(fault)
                   THEN [rows |-> saved.rows, ok |-> FALSE]
                   ELSE UpdateTask(saved.rows, saved.task_id, "completed",
                                   MockResult, Null, "12.0", "1250", t)
    IN
    IF ~(has("openai") \/ has("anthropic"))
    THEN [ss |-> ss, tasks |-> tasks]
    ELSE IF run_end = "abandoned"
    THEN [ss |-> ss, tasks |-> saved.rows]
    ELSE [ss |-> Put(ss, "processing_result",
                     [task_id |-> saved.task_id, result |-> MockResult,
                      processing_time |-> ProcessingSeconds,
                      tokens_used |-> 1250]),
          tasks |-> updated.rows]

\* one run of the Results page script: its imports, require_authentication,
\* then main's choice between processing, showing the result, and the history
ResultsPage(run_end) ==
    LET chk == check_authentication(session_state, now)
        key == get_or_create_encryption_key(key_config, keygen + 1)
        run == process_input(chk.ss, research_tasks, api_keys, key, chk.res,
                             db_fault, run_end, now)
    IN
    /\ IF ImportRaises(ResultsPageImports, UtilsDatabaseNames)
       THEN /\ UNCHANGED <<session_state, research_tasks>>
            /\ last' = [op |-> "results_page", args |-> <<run_end>>,
                        res |-> Raised("ImportError"), s |-> 0]
       ELSE IF chk.res = NoneR
       THEN /\ session_state' = chk.ss
            /\ UNCHANGED research_tasks
            /\ last' = [op |-> "results_page", args |-> <<run_end>>,
                        res |-> [kind |-> "stop"], s |-> 0]
       ELSE IF "processing_input" \in DOMAIN chk.ss
               /\ "processing_result" \notin DOMAIN chk.ss
       THEN /\ Len(run.tasks) <= MaxTasks
            /\ session_state' = run.ss
            /\ research_tasks' = run.tasks
            /\ last' = [op |-> "results_page", args |-> <<run_end>>,
                        res |-> [kind |-> "processed"], s |-> 0]
       ELSE /\ session_state' = chk.ss
            /\ UNCHANGED research_tasks
            /\ last' = [op |-> "results_page", args |-> <<run_end>>,
                        res |-> [kind |-> "shown"], s |-> 0]
    /\ UNCHANGED <<restVars, usersVars, now, keysVars, key_config, keygen, cryptVars,
                   llm_configs, next_config_id, db_fault, uow>>

----------------------------------------------------------------------------
(* Application startup (src/ui/streamlit_app.py) *)

\* Base.metadata.create_all raises: init_database_engine fails
SchemaRaises(fault) == fault = "schema"

\* initialize_database and main's test of it at a process start:
\* init_database_tables runs with no handler of its own, so whatever the engine,
\* the super-admin bootstrap or the seeding raises reaches initialize_database,
\* which reports it and returns False; main then stops the script
initialize_database ==
    /\ IF SchemaRaises(db_fault) \/ SessionRaises(db_fault)
       THEN /\ UNCHANGED <<users, llm_configs, next_config_id>>
            /\ last' = [op |-> "initialize_database", args |-> <<>>,
                        res |-> BoolR(FALSE), s |-> 0,
                        tables |-> Raised("OperationalError"),
                        stopped |-> TRUE]
       ELSE \E us \in InitSuperAdminRows(users) :
            LET found == UsersByEmail(us, SuperAdminEmail)
                super_admin == CHOOSE i \in found : \A j \in found : i <= j
                seeded == init_default_llm_configs(1, llm_configs, super_admin,
                                                   next_config_id)
            IN
            /\ seeded.next_id <= MaxConfigId + 1
            /\ users' = us
            /\ llm_configs' = seeded.rows
            /\ next_config_id' = seeded.next_id
            /\ last' = [op |-> "initialize_database", args |-> <<>>,
                        res |-> BoolR(TRUE), s |-> 0, tables |-> NoneR,
                        stopped |-> FALSE]
    /\ UNCHANGED <<restVars, regs, uiVars, keysVars, key_config, keygen, cryptVars,
                   research_tasks, db_fault, uow>>

----------------------------------------------------------------------------
(* The role gates of the pages (src/auth/authentication.py) *)

\* (a gate that lets every authenticated user through)
RequireAnyUser(ss, t) ==
    LET chk == check_authentication(ss, t) IN
    [ss |-> chk.ss, user |-> chk.res, stopped |-> chk.res = NoneR]

\* require_admin: the session state it leaves, the bundle it returns, and
\* whether it stopped the page (st.stop())
require_admin(ss, t) ==
    LET chk == check_authentication(ss, t) IN
    [ss |-> chk.ss, user |-> chk.res,
     stopped |-> chk.res = NoneR \/ ~chk.res.is_admin]

\* require_super_admin
require_super_admin(ss, t) ==
    LET chk == check_authentication(ss, t) IN
    [ss |-> chk.ss, user |-> chk.res,
     stopped |-> chk.res = NoneR \/ ~chk.res.is_super_admin]

\* a page guarded by require_admin is loaded (the Admin page)
RequireAdmin ==
    LET g == require_admin(session_state, now) IN
    /\ session_state' = g.ss
    /\ last' = [op |-> "require_admin", args |-> <<>>, res |-> g.user, s |-> 0,
                stopped |-> g.stopped]
    /\ UNCHANGED <<moreVars, users, regs, now, api_keys, next_key_id, ksess, latest_key,
                   key_config, keygen>>

\* a page guarded by require_super_admin is loaded
RequireSuperAdmin ==
    LET g == require_super_admin(session_state, now) IN
    /\ session_state' = g.ss
    /\ last' = [op |-> "require_super_admin", args |-> <<>>, res |-> g.user, s |-> 0,
                stopped |-> g.stopped]
    /\ UNCHANGED <<moreVars, users, regs, now, api_keys, next_key_id, ksess, latest_key,
                   key_config, keygen>>

----------------------------------------------------------------------------
(* The initial state: an empty database, an anonymous UI session *)

InitTables ==
    /\ users = <<>>
    /\ regs = [s \in DbSessions |-> IdleReg]
    /\ session_state = EmptySessionState
    /\ now = 0
    /\ api_keys = {}
    /\ next_key_id = 1
    /\ ksess = [s \in DbSessions |-> IdleStore({})]
    /\ latest_key = {}
    /\ keygen = 0
    /\ held = {}
    /\ proc = 1
    /\ llm_configs = {}
    /\ next_config_id = 1
    /\ research_tasks = <<>>
    /\ db_fault = "none"
    /\ uow = ClosedSession
    /\ user_activities = <<>>
    /\ api_usage_logs = <<>>
    /\ error_logs = <<>>
    /\ tracker = NoneR
    /\ performance_metrics = <<>>
    /\ system_metrics = <<>>
    /\ providers = BuiltinProviders
    /\ default_models = BuiltinDefaultModels
    /\ adapter = NoneR
    /\ net_calls = 0
    /\ last = [op |-> "init", args |-> <<>>, res |-> NoneR, s |-> 0,
               only_boot |-> TRUE]

\* a deployment with its encryption key in st.secrets
Init ==
    /\ InitTables
    /\ key_config = [has_secret |-> TRUE, secret |-> Secret44, env |-> Unset]

\* any of the three deployments
InitAnyKeyConfig ==
    /\ InitTables
    /\ key_config \in KeyConfigs

(* The users table under concurrent registrations, startup and the admin panel *)
Next ==
    \/ \E s \in DbSessions, e \in Emails, n \in FullNames :
          RegisterLookup(s, e, DefaultPassword, n)
    \/ \E s \in DbSessions : RegisterCommit(s)
    \/ init_super_admin
    \/ \E uid \in 1..(Cardinality(Emails) + 1), b \in BOOLEAN :
          update_user_admin_status(uid, b)

Spec == Init /\ [][Next]_vars

\* what is typed into the login form
LoginInputs ==
    ({SuperAdminEmail, "alice@example.com"} \X Passwords)
        \cup {<<"", DefaultPassword>>, <<"alice@example.com", "">>}

(* One UI session: registration, startup, login, 2FA enrolment, page loads,
   logout, and the clock *)
NextAuth ==
    \/ \E n \in FullNames : register_user("alice@example.com", "Passw0rd!x", n)
    \/ init_super_admin
    \/ \E form \in LoginInputs, c \in CodeInputs(now) :
          LoginSubmit(form[1], form[2], c)
    \/ CheckAuthentication
    \/ Logout
    \/ ShowTotpSetup
    \/ \E c \in CodeInputs(now) : VerifyAndEnable(c)
    \/ CancelTotpSetup
    \/ \E d \in TickSteps : Tick(d)

SpecAuth == Init /\ [][NextAuth]_vars

(* The API keys of the logged-in users, one call at a time (Profile page) *)
NextKeys ==
    \/ init_super_admin
    \/ \E u \in UserIds, p \in Providers, k \in ApiKeyInputs :
          store_user_api_key(u, p, k)
    \/ \E u \in UserIds, p \in Providers : get_user_api_key(u, p)
    \/ \E u \in UserIds, p \in Providers : delete_user_api_key(u, p)

SpecKeys == InitAnyKeyConfig /\ [][NextKeys]_vars

\* the keys the two sessions store: two well-formed ones, one too short
RacedKeyInputs == {k \in ApiKeyInputs : k.prefix = "sk-"}

(* Two database sessions storing API keys at once (two browser sessions of
   the logged-in user) *)
NextKeysConc ==
    \/ init_super_admin
    \/ \E s \in DbSessions, u \in UserIds, k \in RacedKeyInputs :
          StoreLookup(s, u, "openai", k)
    \/ \E s \in DbSessions : StoreWrite(s)
    \/ \E s \in DbSessions : StoreCommit(s)
    \/ \E u \in UserIds : get_user_api_key(u, "openai")

SpecKeysConc == Init /\ [][NextKeysConc]_vars

\* any deployment, well configured or not
InitCrypt ==
    /\ InitTables
    /\ key_config \in CryptConfigs

(* The encryption calls on their own: encrypt, decrypt (of kept, altered and
   foreign ciphertexts), restart *)
NextCrypt ==
    \/ \E k \in ApiKeyInputs : EncryptApiKey(k)
    \/ \E c \in DecryptInputs : DecryptApiKey(c)
    \/ \E cfg \in CryptConfigs : RestartProcess(cfg)

SpecCrypt == InitCrypt /\ [][NextCrypt]_vars

\* what the admin saves: a seed's triple with other settings, a new triple
SaveInputs ==
    {Seed("openai", "gpt-4-turbo-preview", "code_generation", 5, Params(9, 1000)),
     Seed("openai", "gpt-4o", "code_generation", 1, Params(7, 2000))}

\* the rows the admin deletes: two seeds, the first row added after the seeds
DeleteInputs == {1, 9, 10}

(* Startup and the admin panel's LLM settings: bootstrap (at startup and by
   "Reinitialize Database"), save, delete, list *)
NextBoot ==
    \/ init_database_tables
    \/ \E task_type \in {Null, "code_generation"} : get_llm_configurations(task_type)
    \/ \E c \in SaveInputs, u \in UserIds :
          save_llm_configuration(c.provider, c.model_name, c.task_type,
                                 c.priority, c.parameters, u)
    \/ \E config_id \in DeleteInputs : delete_llm_configuration(config_id)

SpecBoot == Init /\ [][NextBoot]_vars

\* update_research_task's keyword arguments, None for the ones left out
UpdateArgs(status, result, error_message, processing_time, tokens_used) ==
    [status |-> status, result |-> result, error_message |-> error_message,
     processing_time |-> processing_time, tokens_used |-> tokens_used]

\* the updates made: none of the arguments, each one alone (a status, an empty
\* status, an empty result, a message, an empty message, a zero time, zero
\* tokens), the Results page's completion, a failure
UpdateInputs ==
    {UpdateArgs(Null, Null, Null, Null, Null),
     UpdateArgs("completed", Null, Null, Null, Null),
     UpdateArgs("processing", Null, Null, Null, Null),
     UpdateArgs("", Null, Null, Null, Null),
     UpdateArgs(Null, "{}", Null, Null, Null),
     UpdateArgs(Null, Null, "boom", Null, Null),
     UpdateArgs(Null, Null, "", Null, Null),
     UpdateArgs(Null, Null, Null, "0.0", Null),
     UpdateArgs(Null, Null, Null, Null, "0"),
     UpdateArgs("completed", "{summary}", Null, "12.5", "1250"),
     UpdateArgs("failed", Null, "boom", Null, Null)}

(* The research tasks of the Results page: create, update, the clock *)
NextTasks ==
    \/ init_super_admin
    \/ \E u \in UserIds \cup {NoUserId}, status \in {"pending", "processing"} :
          save_research_task(u, "general_research", "text", "prompt", status)
    \/ \E task_id \in {1, MaxTasks + 1}, a \in UpdateInputs :
          update_research_task(task_id, a.status, a.result, a.error_message,
                               a.processing_time, a.tokens_used)
    \/ \E d \in TickSteps : Tick(d)

SpecTasks == Init /\ [][NextTasks]_vars

\* what a body does in its session
SessionChanges ==
    {AddTask(NewTask(1, "general_research", "text", "prompt", "pending", 0)),
     SetStatus(1, "processing"), SetStatus(1, "failed")}

(* One get_db_session block at a time, with a database that may fail *)
NextUow ==
    \/ UowEnter
    \/ \E c \in SessionChanges : UowChange(c)
    \/ UowCommitInBody
    \/ \E body_end \in BodyEnds : UowExit(body_end)
    \/ \E fault \in {"none", "commit"} : DbFault(fault)

SpecUow == Init /\ [][NextUow]_vars

\* the two updates of a task the Results page and a failure handler make
FaultyUpdateInputs ==
    {UpdateArgs("completed", "{summary}", Null, "12.5", "1250"),
     UpdateArgs("failed", Null, "boom", Null, Null)}

(* The mutating database utilities with a database that may fail: at the
   query, at the commit *)
NextDbFault ==
    \/ db_fault = "none" /\ init_super_admin
    \/ /\ db_fault = "none"
       /\ \E n \in FullNames : register_user("alice@example.com", "Passw0rd!x", n)
    \/ \E uid \in 1..3, b \in BOOLEAN : update_user_admin_status(uid, b)
    \/ \E c \in SaveInputs :
          save_llm_configuration(c.provider, c.model_name, c.task_type,
                                 c.priority, c.parameters, 1)
    \/ \E config_id \in {1, 2} : delete_llm_configuration(config_id)
    \/ \E u \in {1, NoUserId} :
          save_research_task(u, "general_research", "text", "prompt", "processing")
    \/ \E task_id \in {1, MaxTasks + 1}, a \in FaultyUpdateInputs :
          update_research_task(task_id, a.status, a.result, a.error_message,
                               a.processing_time, a.tokens_used)
    \/ \E fault \in {"none", "query", "commit", "refresh"} : DbFault(fault)

SpecDbFault == Init /\ [][NextDbFault]_vars

\* the arguments the collectors are called with
ActivityInputs ==
    {<<"analytics_dashboard_view", "analytics", Null>>, <<Null, Null, Null>>}

UsageInputs ==
    {[provider |-> p, model_name |-> "deepseek-coder", task_type |-> Null,
      request_type |-> "completion", input_tokens |-> tok[1],
      output_tokens |-> tok[2], response_time_ms |-> 1250, success |-> TRUE,
      error_message |-> Null, cost_estimate |-> Null] :
        p \in {"deepseek", Null}, tok \in {<<NoCount, 200>>}}

(* The analytics collectors in one UI session: startup, login, the three
   collectors, a track_api_call scope, database failures *)
NextAnalytics ==
    \/ init_super_admin
    \/ LoginSubmit(SuperAdminEmail, DefaultPassword, <<>>)
    \/ \E a \in ActivityInputs, u \in UserIds \cup {NoUserId} :
          track_user_activity(a[1], a[2], a[3], u, TRUE)
    \/ \E a \in UsageInputs, u \in UserIds \cup {NoUserId} :
          track_api_usage(a, u, TRUE)
    \/ track_api_call_enter("deepseek", "deepseek-coder", "code_generation")
    \/ set_tokens(100, 200)
    \/ set_cost("0.05")
    \/ \E body_end \in BodyEnds : track_api_call_exit(body_end, TRUE)
    \/ \E fault \in {"none", "commit"} : DbFault(fault)

SpecAnalytics == Init /\ [][NextAnalytics]_vars

\* the keys create_provider is called with: none, too short, long enough
FactoryKeys == {EmptyKey} \cup {k \in ApiKeyInputs : k.tag # "B"}

\* the names create_provider is called with whose adapter builds no client
HttpNames == {"deepseek", "openrouter", "qwen", "grok", "nonexistent"}

(* The provider factory and the adapters it builds: the registration of the
   two wrappers when their library imports, create_provider, generate *)
NextProviders ==
    \/ register_provider("openai", "OpenAIProviderWrapper", "gpt-4-turbo-preview")
    \/ register_provider("anthropic", "AnthropicProviderWrapper",
                         "claude-3-sonnet-20240229")
    \/ \E n \in HttpNames, k \in FactoryKeys, m \in {"", "deepseek-chat"} :
          create_provider(n, k, m, "ok")
    \/ \E n \in {"gemini", "openai"}, k \in FactoryKeys, c \in ClientOutcomes :
          create_provider(n, k, "", c)
    \/ \E http \in HttpOutcomes : generate(http)

SpecProviders == Init /\ [][NextProviders]_vars

(* One UI session on the Home and Results pages: startup, login and logout, a
   stored API key, a submitted prompt, runs of the Results page, the clock *)
NextResults ==
    \/ init_super_admin
    \/ LoginSubmit(SuperAdminEmail, DefaultPassword, <<>>)
    \/ Logout
    \/ \E p \in {"openai", "deepseek"}, k \in ApiKeyInputs : store_user_api_key(1, p, k)
    \/ delete_user_api_key(1, "openai")
    \/ \E in \in {<<"prompt", "">>, <<"", "https://arxiv.org/abs/1">>} :
          StartProcessing(in[1], in[2])
    \/ \E run_end \in RunEnds : ResultsPage(run_end)
    \/ ShowTotpSetup
    \/ \E d \in TickSteps : Tick(d)

SpecResults == Init /\ [][NextResults]_vars


(* Process starts with a database that may fail: at the schema creation, at a
   query or a commit of the bootstrap; the admin's LLM settings in between *)
NextStartup ==
    \/ initialize_database
    \/ /\ db_fault = "none"
       /\ \E c \in SaveInputs, u \in UserIds :
             save_llm_configuration(c.provider, c.model_name, c.task_type,
                                    c.priority, c.parameters, u)
    \/ db_fault = "none" /\ \E config_id \in DeleteInputs : delete_llm_configuration(config_id)
    \/ \E fault \in {"none", "schema", "query", "commit"} : DbFault(fault)

SpecStartup == Init /\ [][NextStartup]_vars


\* keys at the edges of the length tests, and an Anthropic key
EdgeKeyInputs ==
    {[prefix |-> "sk-", len |-> 10, tag |-> "E"],
     [prefix |-> "sk-", len |-> 20, tag |-> "F"],
     [prefix |-> "sk-ant-", len |-> 40, tag |-> "G"]}

\* what the Profile page is asked to store: for each kind of provider keys
\* that pass its rule and keys that fail it
VaultInputs ==
    {<<p, k>> \in {"openai", "anthropic", "deepseek", "custom"}
                     \X (ApiKeyInputs \cup EdgeKeyInputs) :
        \/ p = "openai" /\ k.tag \in {"A", "C", "D", "F", "G"}
        \/ p = "anthropic" /\ k.tag \in {"A", "G"}
        \/ p = "deepseek" /\ k.tag \in {"C", "F"}
        \/ p = "custom" /\ k.tag \in {"E", "F"}}

(* The Profile page's vault with a database that may fail: valid and invalid
   keys stored for the providers with a prefix rule, one with a length rule
   only, and one the validator does not know *)
NextVault ==
    \/ init_super_admin
    \/ \E in \in VaultInputs : store_user_api_key(1, in[1], in[2])
    \/ db_fault = "none" /\ delete_user_api_key(1, "openai")
    \/ \E fault \in {"none", "query", "commit"} : DbFault(fault)

SpecVault == Init /\ [][NextVault]_vars


\* one plain usage record
PlainUsage ==
    [provider |-> "deepseek", model_name |-> "deepseek-coder",
     task_type |-> "code_generation", request_type |-> "completion",
     input_tokens |-> 100, output_tokens |-> 200, response_time_ms |-> "1250",
     success |-> TRUE, error_message |-> Null, cost_estimate |-> Null]

\* the analytics tables hold fewer than MaxRows rows between them
RoomForRow ==
    Len(user_activities) + Len(api_usage_logs) + Len(performance_metrics)
       + Len(system_metrics) + Len(error_logs) < MaxRows

(* The five collectors called for a known user or with no user, with good
   arguments or a None in a NOT NULL column, on a database that may fail *)
NextCollectors ==
    \/ /\ RoomForRow
       /\ \E in \in {<<"page_view", 1>>, <<Null, 1>>, <<"page_view", NoUserId>>} :
             track_user_activity(in[1], "home", Null, in[2], TRUE)
    \/ /\ RoomForRow
       /\ \E m \in {"deepseek-coder", Null} :
             track_api_usage([PlainUsage EXCEPT !.model_name = m], 1, TRUE)
    \/ RoomForRow /\ \E ms \in {"120", Null} : track_performance("home", ms, 1, TRUE)
    \/ /\ RoomForRow
       /\ \E v \in {"0.5", Null} : track_system_metrics("cpu_usage", "cpu", v, "percent")
    \/ /\ RoomForRow
       /\ \E msg \in {"boom", Null} :
             call_track_error("ui_error", msg, "error", NoUserId, TRUE)
    \/ \E fault \in {"none", "query", "commit"} : DbFault(fault)

SpecCollectors == Init /\ [][NextCollectors]_vars


(* One UI session and the admin panel's role toggles made meanwhile from
   another session: registration, startup, login, guarded page loads, role
   changes in the database, logout and the clock *)
NextRoles ==
    \/ \E n \in FullNames : register_user("alice@example.com", "Passw0rd!x", n)
    \/ init_super_admin
    \/ \E form \in {<<SuperAdminEmail, DefaultPassword>>,
                    <<"alice@example.com", "Passw0rd!x">>} :
          LoginSubmit(form[1], form[2], <<>>)
    \/ \E uid \in 1..2, b \in BOOLEAN : update_user_admin_status(uid, b)
    \/ RequireAdmin
    \/ RequireSuperAdmin
    \/ Logout
    \/ \E d \in TickSteps : Tick(d)

SpecRoles == Init /\ [][NextRoles]_vars

(* The accounts: registrations (the super admin's address, the same address in
   another case, an ordinary one), startup, the 2FA enrolment of the ordinary
   user, and the admin panel's role toggle *)
NextAccounts ==
    \/ \E e \in Emails, n \in FullNames : register_user(e, "Passw0rd!x", n)
    \/ init_super_admin
    \/ LoginSubmit("alice@example.com", "Passw0rd!x", <<>>)
    \/ ShowTotpSetup
    \/ \E c \in {<<1, 2, 3>>} \cup {TotpAt(sec, TimeCode(now)) : sec \in Secrets} :
          VerifyAndEnable(c)
    \/ \E uid \in 1..(Cardinality(Emails) + 1), b \in BOOLEAN :
          update_user_admin_status(uid, b)

SpecAccounts == Init /\ [][NextAccounts]_vars

----------------------------------------------------------------------------
(* Properties of the users table, under Spec *)

\* C1: whenever a user row with email jerome@rotz.host exists, it has
\* is_admin = true and is_super_admin = true, under any sequence of
\* register_user, init_super_admin and update_user_admin_status calls.
C1_SuperAdminKeepsBothFlags ==
    \A i \in UserIds :
        users[i].email = SuperAdminEmail =>
            users[i].is_admin /\ users[i].is_super_admin

\* the super admin exists and update_user_admin_status was just called on it
C1_Witness ==
    /\ last.op = "update_user_admin_status"
    /\ last.args[1] \in UserIds
    /\ users[last.args[1]].email = SuperAdminEmail
    /\ last.args[2] = FALSE

\* C2: update_user_admin_status on the jerome@rotz.host user returns failure for
\* both requested values and leaves the table unchanged; on any other existing
\* user it sets is_admin to the requested value (and nothing else) and returns
\* success.
C2_UpdateAdminStatus ==
    [][last'.op = "update_user_admin_status" =>
        LET uid == last'.args[1]
            requested == last'.args[2]
        IN  uid \in UserIds =>
              IF users[uid].email = SuperAdminEmail
              THEN /\ ~last'.res.ok
                   /\ users' = users
              ELSE /\ last'.res.ok
                   /\ users' = [users EXCEPT ![uid].is_admin = requested]]_vars

\* a refused call on the super admin that asked for is_admin = true
C2_Witness ==
    /\ last.op = "update_user_admin_status"
    /\ last.args[1] \in UserIds
    /\ users[last.args[1]].email = SuperAdminEmail
    /\ last.args[2] = TRUE
    /\ ~last.res.ok
    /\ \E j \in UserIds : users[j].email # SuperAdminEmail /\ users[j].is_admin

UniqueEmails ==
    \A i, j \in UserIds : users[i].email = users[j].email => i = j

\* C3: register_user with an email that already has a row returns None and adds
\* no row (nor leaves an insert pending); under every interleaving of
\* register_user calls there is at most one row per email; a successful
\* registration creates the row with both role flags false, except for
\* jerome@rotz.host, which gets both flags true.
C3_RegisterUser ==
    /\ []UniqueEmails
    /\ [](last.op = "register_user" /\ last.res.kind = "registered" =>
            LET row == users[last.res.user_id] IN
            /\ row.email = last.args[1]
            /\ row.is_super_admin = (row.email = SuperAdminEmail)
            /\ row.is_admin = (row.email = SuperAdminEmail))
    /\ [][last'.op = "register_user"
            /\ UsersByEmail(users, last'.args[1]) # {} =>
            /\ users' = users
            /\ last'.res.kind # "registered"
            /\ regs[last'.s].pc = "idle" =>
                  last'.res = NoneR /\ regs' = regs]_vars

\* two sessions raced for one email: the loser's INSERT was refused
C3_Witness ==
    /\ last.op = "register_user"
    /\ last.res.kind = "IntegrityError"
    /\ \E i \in UserIds : users[i].email = last.args[1]

----------------------------------------------------------------------------
(* Properties of authentication and the UI session, under SpecAuth *)

\* C4: authenticate_user returns None when the email has no user or the password
\* does not match; for a user with a TOTP secret and a matching password it
\* returns the TOTP-required marker (user id, no token) when no code is supplied
\* and None when the code is wrong; it returns the full bundle with a session
\* token exactly when the password matches and, if a TOTP secret is configured,
\* the supplied code verifies.
C4_AuthenticateUser ==
    (last.op = "login" /\ last.res.kind # "missing_fields") =>
        LET email == last.args[1]
            password == last.args[2]
            code == last.args[3]
            res == last.res
            found == {i \in UserIds : users[i].email = email}
        IN
        /\ found = {} => res = NoneR
        /\ \A i \in found :
             LET u == users[i]
                 pw_ok == verify_password(password, u.password_hash)
                 has_totp == Truthy(u.totp_secret)
                 code_ok == code # <<>> /\ verify_totp(u.totp_secret, code, now)
             IN
             /\ ~pw_ok => res = NoneR
             /\ (pw_ok /\ has_totp /\ code = <<>>) =>
                    /\ res.kind = "totp"
                    /\ res.user_id = i
                    /\ "token" \notin DOMAIN res
             /\ (pw_ok /\ has_totp /\ code # <<>> /\ ~code_ok) => res = NoneR
             /\ (res.kind = "user") <=> (pw_ok /\ (has_totp => code_ok))
             /\ (res.kind = "user") =>
                    /\ res.user_id = i
                    /\ res.email = email
                    /\ res.token.payload.user_id = i
                    /\ decode_jwt_token(res.token, now) # NoneR

\* a login with the right password and no code, for a user with 2FA configured
C4_Witness ==
    /\ last.op = "login"
    /\ last.res.kind = "totp"
    /\ last.args[3] = <<>>
    /\ Truthy(users[last.res.user_id].totp_secret)

\* C5: the UI session gets a user bundle only by a login submission for which
\* authenticate_user returned the full bundle, with a matching password and,
\* for a user with 2FA configured, a code that verifies in that same
\* submission; a submission for a 2FA user with the code omitted or wrong
\* leaves the session anonymous.
C5_LoginOnlyByFullSuccess ==
    [][/\ ("user" \notin DOMAIN session_state /\ "user" \in DOMAIN session_state') =>
            /\ last'.op = "login"
            /\ last'.res.kind = "user"
            /\ session_state'["user"] = last'.res
            /\ "token" \in DOMAIN last'.res
            /\ last'.res.user_id \in UserIds
            /\ LET u == users[last'.res.user_id] IN
               /\ u.email = last'.args[1]
               /\ verify_password(last'.args[2], u.password_hash)
               /\ Truthy(u.totp_secret) =>
                     /\ last'.args[3] # <<>>
                     /\ verify_totp(u.totp_secret, last'.args[3], now)
       /\ last'.op = "login" =>
            \A i \in UserIds :
               (/\ users[i].email = last'.args[1]
                /\ Truthy(users[i].totp_secret)
                /\ \/ last'.args[3] = <<>>
                   \/ ~verify_totp(users[i].totp_secret, last'.args[3], now))
               => "user" \notin DOMAIN session_state'
      ]_vars

\* a user with 2FA configured has just logged in
C5_Witness ==
    /\ last.op = "login"
    /\ last.res.kind = "user"
    /\ "user" \in DOMAIN session_state
    /\ Truthy(users[last.res.user_id].totp_secret)

ValidlySigned(token) == token.sig = <<JwtSecret, token.payload>>

\* C6: every check_authentication re-validates the stored bundle's token: it
\* returns the bundle only if the bundle carries a validly signed, unexpired
\* token; when the token is expired or invalid it deletes the bundle from the
\* session state (and nothing else) and returns None, so the session is
\* anonymous at the first check made 24 hours or more after the login.
C6_CheckRevalidatesToken ==
    [][last'.op = "check_authentication" =>
        LET res == last'.res IN
        /\ res # NoneR =>
              /\ "user" \in DOMAIN session_state
              /\ res = session_state["user"]
              /\ "token" \in DOMAIN res
              /\ ValidlySigned(res.token)
              /\ res.token.payload.exp > now
              /\ now < res.token.payload.iat + JwtExpiryHours
              /\ session_state' = session_state
        /\ ("user" \in DOMAIN session_state
              /\ "token" \in DOMAIN session_state["user"]
              /\ \/ ~ValidlySigned(session_state["user"].token)
                 \/ now >= session_state["user"].token.payload.iat + JwtExpiryHours) =>
              /\ res = NoneR
              /\ session_state' = Del(session_state, "user")
      ]_vars

\* a check found the stored bundle's token expired and dropped the bundle
C6_Witness ==
    /\ last.op = "check_authentication"
    /\ last.had_user
    /\ last.res = NoneR
    /\ "user" \notin DOMAIN session_state

\* C7: setup_user_totp writes the proposed secret to the user row only when the
\* supplied code verifies against that proposed secret and the user exists;
\* otherwise it returns false and the stored totp_secret is unchanged; no other
\* step changes a stored totp_secret, so the old secret stays in force until a
\* code for the new one is verified.
C7_SetupTotpVerifiesFirst ==
    [][/\ last'.op = "setup_user_totp" =>
            LET uid == last'.args[1]
                code == last'.args[2]
                secret == last'.args[3]
            IN
            /\ last'.res.ok <=> (verify_totp(secret, code, now) /\ uid \in UserIds)
            /\ last'.res.ok => users' = [users EXCEPT ![uid].totp_secret = secret]
            /\ ~last'.res.ok => users' = users
       /\ \A i \in UserIds :
            users'[i].totp_secret # users[i].totp_secret =>
               /\ last'.op = "setup_user_totp"
               /\ last'.res.ok
               /\ last'.args[1] = i
               /\ users'[i].totp_secret = last'.args[3]
               /\ verify_totp(last'.args[3], last'.args[2], now)
      ]_vars

\* a regenerate flow: a wrong code for the proposed secret, the old secret stays
C7_Witness ==
    /\ last.op = "setup_user_totp"
    /\ ~last.res.ok
    /\ Truthy(users[last.args[1]].totp_secret)
    /\ users[last.args[1]].totp_secret # last.args[3]

----------------------------------------------------------------------------
(* Properties of the API keys, under SpecKeys and SpecKeysConc *)

OneRowPerPair ==
    \A r1, r2 \in api_keys :
        (r1.user_id = r2.user_id /\ r1.provider = r2.provider) => r1 = r2

\* C8 (under SpecKeys): after any sequence of store_user_api_key and
\* delete_user_api_key calls run one at a time there is at most one row per
\* (user_id, provider); a successful store for a pair that has a row keeps
\* that row's id, gives it the new ciphertext and is_active = true, and adds
\* no row.
C8_OneRowPerPair ==
    /\ []OneRowPerPair
    /\ [][(/\ last'.op = "store_user_api_key"
           /\ last'.res.ok
           /\ PairRows(api_keys, last'.args[1], last'.args[2]) # {}) =>
            \E old \in PairRows(api_keys, last'.args[1], last'.args[2]),
               new \in PairRows(api_keys', last'.args[1], last'.args[2]) :
                /\ new.id = old.id
                /\ new.is_active
                /\ new.api_key_encrypted.plaintext = last'.args[3]
                /\ api_keys' \ {new} = api_keys \ {old}
                /\ Cardinality(api_keys') = Cardinality(api_keys)
                /\ next_key_id' = next_key_id]_vars

\* a store has just updated a row that an earlier store had inserted
C8_Witness ==
    /\ last.op = "store_user_api_key"
    /\ last.res.ok
    /\ \E r \in PairRows(api_keys, last.args[1], last.args[2]) :
          r.id # next_key_id - 1

\* the key every call of this deployment resolves, when it is a fixed one
FixedKey == ~GeneratesKey(key_config)

ResolvedKey == get_or_create_encryption_key(key_config, keygen + 1)

\* get_user_api_key's answer for the key stored last, None when there is none
ExpectedGet(user_id, provider) ==
    LET e == {x \in latest_key : x.user_id = user_id /\ x.provider = provider} IN
    IF e = {} THEN {NoneR} ELSE {[kind |-> "str", value |-> x.api_key] : x \in e}

OtherPairs(rows, user_id, provider) == rows \ PairRows(rows, user_id, provider)

\* C9 (under SpecKeysConc): when two database sessions have run
\* store_user_api_key concurrently for one (user, provider) pair and both have
\* committed, the pair holds the key of the session that committed last and
\* get_user_api_key returns that key.
C9_LastCommitWins ==
    \A u \in UserIds, p \in Providers :
        (\A s \in DbSessions : ksess[s].pc = "idle" /\ <<u, p>> \in ksess[s].raced) =>
            \A e \in latest_key :
                (e.user_id = u /\ e.provider = p) =>
                    /\ \A r \in PairRows(api_keys, u, p) :
                          r.api_key_encrypted.plaintext = e.api_key
                    /\ GetResults(api_keys, u, p, ResolvedKey)
                          = {[kind |-> "str", value |-> e.api_key]}

\* C10 (under SpecKeys): under a fixed encryption key, after a successful
\* store_user_api_key(u, p, K), get_user_api_key(u, p) returns K, the key stored
\* last for the pair; delete_user_api_key(u, p) returns true exactly when the
\* pair had a row, and after it get returns None and the pair has no row (a
\* second delete returns false); none of the three calls changes the rows of
\* another pair.
C10_StoreGetDelete ==
    /\ []((last.op = "store_user_api_key" /\ last.res.ok /\ FixedKey) =>
            GetResults(api_keys, last.args[1], last.args[2], ResolvedKey)
               = {[kind |-> "str", value |-> last.args[3]]})
    /\ []((last.op = "get_user_api_key" /\ FixedKey) =>
            {last.res} = ExpectedGet(last.args[1], last.args[2]))
    /\ [](last.op = "delete_user_api_key" =>
            /\ PairRows(api_keys, last.args[1], last.args[2]) = {}
            /\ GetResults(api_keys, last.args[1], last.args[2], ResolvedKey) = {NoneR})
    /\ [][last'.op = "delete_user_api_key" =>
            (last'.res.ok <=> PairRows(api_keys, last'.args[1], last'.args[2]) # {})]_vars
    /\ [][last'.op \in {"store_user_api_key", "get_user_api_key",
                        "delete_user_api_key"} =>
            OtherPairs(api_keys', last'.args[1], last'.args[2])
               = OtherPairs(api_keys, last'.args[1], last'.args[2])]_vars
    /\ [][last'.op = "get_user_api_key" => api_keys' = api_keys]_vars

\* a get returned the stored key of a pair after a delete and a new store
C10_Witness ==
    /\ last.op = "get_user_api_key"
    /\ last.res.kind = "str"
    /\ FixedKey
    /\ \E r \in PairRows(api_keys, last.args[1], last.args[2]) : r.id > 1
    /\ Cardinality(api_keys) = 1

----------------------------------------------------------------------------
(* Properties of encrypt_api_key and decrypt_api_key, under SpecCrypt *)

\* the tokens encrypt_api_key has returned
Genuine == {h.token : h \in held}

\* C11: decrypt_api_key of a token that encrypt_api_key returned for K gives K
\* when the call resolves the key the token was made under; applied to a token
\* that was altered, to one made under another key, or to a string that is no
\* token, it returns None; it returns a string or None in every case (an
\* exception is never its outcome).
C11_DecryptRoundTrip ==
    last.op = "decrypt_api_key" =>
        LET c == last.args[1] IN
        /\ last.res.kind \in {"str", "None"}
        /\ (c \in Genuine /\ c.fernet_key = last.key) =>
               last.res = [kind |-> "str", value |-> c.plaintext]
        /\ (c \notin Genuine \/ c.fernet_key # last.key) => last.res = NoneR

\* an altered copy of a token of the current key was refused
C11_Witness ==
    /\ last.op = "decrypt_api_key"
    /\ last.args[1] \notin Genuine
    /\ last.args[1].fernet_key = last.key
    /\ last.res = NoneR
    /\ \E h \in held : h.token.fernet_key = last.key

\* C12: within one process every call resolves the same encryption key, in
\* each of the three resolution cases, so decrypt_api_key returns the
\* plaintext of every token that encrypt_api_key made earlier in the process.
C12_SameKeyWithinProcess ==
    last.op = "decrypt_api_key" =>
        \A h \in held :
            h.proc = proc =>
                /\ h.token.fernet_key = last.key
                /\ h.token = last.args[1] =>
                      last.res = [kind |-> "str", value |-> h.token.plaintext]

----------------------------------------------------------------------------
(* Properties of the bootstrap, under SpecBoot *)

SeedTriples ==
    {<<DefaultConfigs[i].provider, DefaultConfigs[i].model_name,
       DefaultConfigs[i].task_type>> : i \in 1..Len(DefaultConfigs)}

\* rows as the seeds give them: one per seed, with the seed's settings
ExactlyTheSeeds(rows) ==
    /\ Cardinality(rows) = Len(DefaultConfigs)
    /\ Cardinality(SeedTriples) = Len(DefaultConfigs)
    /\ \A i \in 1..Len(DefaultConfigs) :
          LET c == DefaultConfigs[i] IN
          \E r \in rows :
              /\ ConfigsOf(rows, c.provider, c.model_name, c.task_type) = {r}
              /\ r.priority = c.priority
              /\ r.parameters = c.parameters
              /\ r.is_active

\* has init_database_tables completed at least once (it leaves the super admin)
BootstrapRan == UsersByEmail(users, SuperAdminEmail) # {}

\* the rows a get_llm_configurations result lists
Listed(res) == UNION {res.rows[i] : i \in DOMAIN res.rows}

\* C13: after any number of init_database_tables runs on an initially empty
\* store there is exactly one jerome@rotz.host user and exactly the nine seed
\* configurations, one per seed triple, and get_llm_configurations returns
\* exactly those nine rows; on any store, a run adds a row exactly for the seed
\* triples that have none and changes no existing row.
C13_BootstrapIdempotent ==
    /\ []((OnlyBoot /\ BootstrapRan) =>
            /\ Cardinality(UsersByEmail(users, SuperAdminEmail)) = 1
            /\ ExactlyTheSeeds(llm_configs)
            /\ (last.op = "get_llm_configurations" /\ last.args[1] = Null) =>
                  /\ Listed(last.res) = llm_configs
                  /\ \A i, j \in DOMAIN last.res.rows :
                        i < j => \A r1 \in last.res.rows[i], r2 \in last.res.rows[j] :
                                    r1.priority < r2.priority)
    /\ [][last'.op = "init_database_tables" =>
            /\ Cardinality(UsersByEmail(users', SuperAdminEmail)) = 1
            /\ llm_configs \subseteq llm_configs'
            /\ \A i \in 1..Len(DefaultConfigs) :
                  LET c == DefaultConfigs[i]
                      before == ConfigsOf(llm_configs, c.provider, c.model_name,
                                          c.task_type)
                      after == ConfigsOf(llm_configs', c.provider, c.model_name,
                                         c.task_type)
                  IN /\ Cardinality(after) = 1
                     /\ before # {} => after = before
            /\ \A r \in llm_configs' \ llm_configs :
                  <<r.provider, r.model_name, r.task_type>> \in SeedTriples]_vars

\* a second bootstrap ran on a store where the admin had changed one seed's
\* settings and deleted another seed
C13_Witness ==
    /\ last.op = "init_database_tables"
    /\ ~OnlyBoot
    /\ \E r \in llm_configs : r.id = 1 /\ r.priority = 5
    /\ \E r \in llm_configs : r.id = 10 /\ r.provider = "grok"

----------------------------------------------------------------------------
(* Properties of the research tasks, under SpecTasks *)

\* the columns update_research_task has no argument for
SameIdentity(old, new) ==
    /\ new.user_id = old.user_id
    /\ new.task_type = old.task_type
    /\ new.input_type = old.input_type
    /\ new.input_data = old.input_data
    /\ new.created_at = old.created_at

\* an update step on an existing task writes the columns for which given(arg)
\* holds of the status and error-message arguments, and the result, time and
\* tokens whenever they are not None
UpdatesExactly(given(_)) ==
    last'.op = "update_research_task" =>
        LET task_id == last'.args[1]
            status == last'.args[2]
            result == last'.args[3]
            error_message == last'.args[4]
            processing_time == last'.args[5]
            tokens_used == last'.args[6]
        IN
        IF task_id \in 1..Len(research_tasks)
        THEN LET old == research_tasks[task_id]
                 new == research_tasks'[task_id]
             IN
             /\ last'.res.ok
             /\ Len(research_tasks') = Len(research_tasks)
             /\ \A i \in 1..Len(research_tasks) :
                   i # task_id => research_tasks'[i] = research_tasks[i]
             /\ SameIdentity(old, new)
             /\ new.status = IF given(status) THEN status ELSE old.status
             /\ new.result = IF result # Null THEN result ELSE old.result
             /\ new.error_message = IF given(error_message) THEN error_message
                                    ELSE old.error_message
             /\ new.processing_time = IF processing_time # Null
                                      THEN processing_time ELSE old.processing_time
             /\ new.tokens_used = IF tokens_used # Null THEN tokens_used
                                  ELSE old.tokens_used
             /\ new.completed_at = IF status = "completed" THEN Stamp(now)
                                   ELSE old.completed_at
        ELSE /\ ~last'.res.ok
             /\ research_tasks' = research_tasks

NotNone(arg) == arg # Null

\* C14: update_research_task on an existing task changes exactly the columns
\* whose arguments are given, an empty status or error message counting as not
\* given: status = "completed" sets the status and stamps completed_at; an error
\* message alone on a "processing" row sets error_message and leaves status,
\* result and completed_at; completed_at is written only by a call with status
\* "completed"; a call for a task id that does not exist returns False and
\* changes nothing.
C14_UpdateResearchTask ==
    /\ [][UpdatesExactly(Truthy)]_vars
    /\ [][\A i \in 1..Len(research_tasks) :
            research_tasks'[i].completed_at # research_tasks[i].completed_at =>
                /\ last'.op = "update_research_task"
                /\ last'.args[1] = i
                /\ last'.args[2] = "completed"
                /\ research_tasks'[i].status = "completed"
                /\ research_tasks'[i].completed_at = Stamp(now)]_vars
    /\ [][(/\ last'.op = "update_research_task"
           /\ last'.args[1] \in 1..Len(research_tasks)
           /\ last'.args[2] = Null /\ last'.args[3] = Null
           /\ last'.args[4] = "boom"
           /\ research_tasks[last'.args[1]].status = "processing") =>
            LET old == research_tasks[last'.args[1]]
                new == research_tasks'[last'.args[1]]
            IN /\ new.error_message = "boom"
               /\ new.status = "processing"
               /\ new.result = old.result
               /\ new.completed_at = old.completed_at]_vars

\* an error message alone was recorded on a task that is being processed
C14_Witness ==
    /\ last.op = "update_research_task"
    /\ last.args[1] \in 1..Len(research_tasks)
    /\ last.args[2] = Null
    /\ last.args[4] = "boom"
    /\ research_tasks[last.args[1]].status = "processing"
    /\ research_tasks[last.args[1]].error_message = "boom"
    /\ research_tasks[last.args[1]].completed_at = NoneR

\* C14 as stated: every argument that is passed (is not None) is written
C14_AsStated == [][UpdatesExactly(NotNone)]_vars

----------------------------------------------------------------------------
(* Properties of get_db_session, under SpecUow *)

\* the rows a later session reads
Visible == research_tasks

\* C15: when the body of a get_db_session block exits normally the session's
\* pending changes are committed; when the body raises, they are rolled back,
\* none of them is visible to a later session (nor left pending), and the same
\* exception reaches the caller; in both cases the session is closed. The
\* table changes by a commit only.
C15_UnitOfWork ==
    /\ [][last'.op = "get_db_session_exit" =>
            LET body_end == last'.args[1]
                adds == {i \in 1..Len(uow.pending) : uow.pending[i].kind = "add"}
            IN
            /\ uow' = ClosedSession
            /\ (body_end.kind = "returns" /\ db_fault = "none") =>
                  /\ last'.res = NoneR
                  /\ Visible' = Flush(research_tasks, uow.pending)
                  /\ Len(Visible') = Len(research_tasks) + Cardinality(adds)
                  /\ \A i \in adds : \E j \in 1..Len(Visible') :
                        /\ j > Len(research_tasks)
                        /\ Visible'[j].user_id = uow.pending[i].row.user_id
            /\ body_end.kind # "returns" =>
                  /\ last'.res = Raised(body_end.exc)
                  /\ Visible' = research_tasks
            /\ body_end.kind = "Exception" => last'.rolled_back]_vars
    /\ [][Visible' # research_tasks =>
            /\ last'.op \in {"get_db_session_exit", "session_commit"}
            /\ last'.res = NoneR]_vars

\* a body committed one change itself, made another and raised: the first one
\* stays, the second is gone
C15_Witness ==
    /\ last.op = "get_db_session_exit"
    /\ last.args[1].kind = "Exception"
    /\ last.pending # <<>>
    /\ last.rolled_back
    /\ Len(research_tasks) = 1
    /\ \E i \in 1..Len(last.pending) : last.pending[i].kind = "add"

----------------------------------------------------------------------------
(* Properties of the database utilities when the database fails, under
   SpecDbFault *)

MutatingUtilities ==
    {"update_user_admin_status", "save_llm_configuration",
     "delete_llm_configuration", "save_research_task", "update_research_task"}

\* C16: update_user_admin_status, save_llm_configuration,
\* delete_llm_configuration, save_research_task and update_research_task never
\* raise to their caller; when the database fails during the call they return
\* False, None for save_research_task, and the stored data is as it was before
\* the call.
C16_UtilitiesNeverRaise ==
    [][last'.op \in MutatingUtilities =>
        /\ last'.res.kind \in {"bool", "id", "None"}
        /\ last'.db_failed =>
              /\ last'.res = IF last'.op = "save_research_task"
                             THEN NoneR ELSE BoolR(FALSE)
              /\ UNCHANGED <<users, llm_configs, next_config_id, research_tasks>>
      ]_vars

----------------------------------------------------------------------------
(* Properties of the analytics collectors, under SpecAnalytics *)

\* no user id is passed and none can be resolved from the session
Anonymous(user_id) == user_id = NoUserId /\ "user_id" \notin DOMAIN session_state

\* table' is table with one more row, for this user
OneMoreRow(before, after, user_id) ==
    /\ Len(after) = Len(before) + 1
    /\ SubSeq(after, 1, Len(before)) = before
    /\ after[Len(after)].user_id = user_id

\* C17: track_user_activity and track_api_usage insert no row and return false
\* when no user id is passed and none can be resolved from the session; they
\* insert exactly one row and return true when a user id is available and the
\* insert succeeds; they never raise, also when the insert fails.
C17_TrackersSkipAnonymous ==
    [][/\ last'.op = "track_user_activity" =>
            /\ last'.res.kind = "bool"
            /\ Anonymous(last'.args[4]) =>
                  /\ last'.res = BoolR(FALSE)
                  /\ UNCHANGED <<user_activities, api_usage_logs, error_logs>>
            /\ (~Anonymous(last'.args[4]) /\ db_fault = "none"
                    /\ last'.args[1] # Null) =>
                  /\ last'.res = BoolR(TRUE)
                  /\ OneMoreRow(user_activities, user_activities', last'.args[4])
                  /\ UNCHANGED <<api_usage_logs, error_logs>>
       /\ last'.op = "track_api_usage" =>
            /\ last'.res.kind = "bool"
            /\ Anonymous(last'.args[2]) =>
                  /\ last'.res = BoolR(FALSE)
                  /\ UNCHANGED <<user_activities, api_usage_logs, error_logs>>
            /\ (~Anonymous(last'.args[2]) /\ db_fault = "none"
                    /\ last'.args[1].provider # Null) =>
                  /\ last'.res = BoolR(TRUE)
                  /\ OneMoreRow(api_usage_logs, api_usage_logs', last'.args[2])
                  /\ UNCHANGED <<user_activities, error_logs>>
      ]_vars

\* a logged-in user's call without a user id was skipped, after one tracked
\* activity and one insert that failed
C17_Witness ==
    /\ last.op = "track_api_usage"
    /\ last.args[2] = NoUserId
    /\ last.res = BoolR(FALSE)
    /\ "user" \in DOMAIN session_state
    /\ Len(user_activities) = 1
    /\ Len(error_logs) = 1

\* C18: every use of the track_api_call scope emits exactly one API-usage
\* record on exit: with success = true and the token counts and cost attached
\* on a normal exit; with success = false and the exception's message when an
\* exception escapes the body, which is re-raised to the caller.
C18_TrackApiCallEmitsOneRecord ==
    [][(last'.op = "track_api_call" /\ db_fault = "none") =>
          /\ Len(api_usage_logs') = Len(api_usage_logs) + 1
          /\ SubSeq(api_usage_logs', 1, Len(api_usage_logs)) = api_usage_logs
          /\ LET record == api_usage_logs'[Len(api_usage_logs')]
                 body_end == last'.args[1]
             IN
             IF body_end.kind = "returns"
             THEN /\ record.success
                  /\ record.input_tokens = tracker.input_tokens
                  /\ record.output_tokens = tracker.output_tokens
                  /\ record.cost_estimate = tracker.cost_estimate
                  /\ last'.res = NoneR
             ELSE /\ ~record.success
                  /\ record.error_message = body_end.exc
                  /\ last'.res = Raised(body_end.exc)
      ]_vars

----------------------------------------------------------------------------
(* Properties of the provider factory and the HTTP adapters, under
   SpecProviders *)

\* C19: create_provider raises the invalid-provider error, naming the
\* registered providers, for a name not in the registry, and constructs no
\* adapter; for a registered name with a key that fails the adapter's shape
\* check it raises APIKeyError at construction, before anything but the check
\* has run and with no HTTP request made; with no model name given the adapter
\* is built with the provider's registered default model.
C19_CreateProvider ==
    [][last'.op = "create_provider" =>
          LET name == last'.args[1]
              api_key == last'.args[2]
              model_name == last'.args[3]
          IN
          /\ name \notin DOMAIN providers =>
                /\ last'.res.kind = "raise"
                /\ last'.res.exc = "ValueError"
                /\ last'.res.available = DOMAIN providers
                /\ last'.steps = <<>>
                /\ UNCHANGED <<adapter, net_calls>>
          /\ (name \in DOMAIN providers /\ ~ValidApiKey(providers[name], api_key)) =>
                /\ last'.res.kind = "raise"
                /\ last'.res.exc = "APIKeyError"
                /\ last'.steps = <<"_validate_api_key">>
                /\ UNCHANGED <<adapter, net_calls>>
          /\ (model_name = "" /\ last'.res.kind = "adapter") =>
                /\ last'.res.model_name = default_models[name]
                /\ adapter' = last'.res
      ]_vars

\* "deepseek" with a key of nine characters was refused, after the OpenAI
\* wrapper had been registered and built with its default model
C19_Witness ==
    /\ last.op = "create_provider"
    /\ last.args[1] = "deepseek"
    /\ last.args[2].len = 9
    /\ last.res.kind = "raise"
    /\ last.res.exc = "APIKeyError"
    /\ adapter # NoneR
    /\ adapter.class = "OpenAIProviderWrapper"
    /\ adapter.model_name = "gpt-4-turbo-preview"

\* C20: each generate of an HTTP adapter returns a result bundle or raises one
\* of the four typed errors: 401 gives APIKeyError, 404 ModelNotFoundError, 429
\* RateLimitError (402 too for OpenRouter), and every other failure gives
\* ProviderTimeoutError; no other exception type reaches the caller.
C20_GenerateTypedErrors ==
    [][last'.op = "generate" =>
          LET http == last'.args[1]
              res == last'.res
              status == IF http.kind = "response" THEN http.status_code ELSE 0
              rate_limited == status = 429
                                \/ (status = 402 /\ last'.class = "OpenRouterProvider")
          IN
          /\ res.kind \in {"result", "raise"}
          /\ res.kind = "raise" => res.exc \in TypedErrors
          /\ status = 401 => res = Raised("APIKeyError")
          /\ status = 404 => res = Raised("ModelNotFoundError")
          /\ rate_limited => res = Raised("RateLimitError")
          /\ (res.kind = "raise" /\ status \notin {401, 404} /\ ~rate_limited) =>
                res = Raised("ProviderTimeoutError")
      ]_vars


\* the user of the session holds an active key of one of the two providers
\* the Results page asks for
HoldsResearchKey(user_id) ==
    \E r \in api_keys : /\ r.user_id = user_id
                        /\ r.provider \in {"openai", "anthropic"}
                        /\ r.is_active

\* the Results page is run by a logged-in user with a pending input and no result
PendingRun ==
    /\ check_authentication(session_state, now).res # NoneR
    /\ "processing_input" \in DOMAIN session_state
    /\ "processing_result" \notin DOMAIN session_state

\* C21: a run of the Results page with a pending input and no result creates a
\* task row only if the user holds an active OpenAI or Anthropic key (without
\* one: no row, no result); with one it creates exactly one row, 'processing',
\* and when the six steps finish that row is 'completed' with the result
\* payload, a processing time and tokens_used = 1250, and the session's result
\* slot holds the id of that row
C21_ResultsRunCreatesAndCompletesTask ==
    [][last'.op = "results_page" /\ PendingRun /\ db_fault = "none" =>
         LET user_id == check_authentication(session_state, now).res.user_id
             n == Len(research_tasks)
         IN
         IF ~HoldsResearchKey(user_id)
         THEN /\ research_tasks' = research_tasks
              /\ "processing_result" \notin DOMAIN session_state'
         ELSE /\ Len(research_tasks') = n + 1
              /\ SubSeq(research_tasks', 1, n) = research_tasks
              /\ research_tasks'[n + 1].user_id = user_id
              /\ IF last'.args[1] = "finishes"
                 THEN /\ research_tasks'[n + 1].status = "completed"
                      /\ research_tasks'[n + 1].result = MockResult
                      /\ research_tasks'[n + 1].processing_time # Null
                      /\ research_tasks'[n + 1].tokens_used = "1250"
                      /\ "processing_result" \in DOMAIN session_state'
                      /\ session_state'["processing_result"].task_id = n + 1
                 ELSE /\ research_tasks'[n + 1].status = "processing"
                      /\ "processing_result" \notin DOMAIN session_state'
    ]_vars

\* a logged-in holder of an OpenAI key has opened the Results page with a
\* pending input
C21_Reached ==
    /\ last.op = "results_page"
    /\ PendingRun
    /\ \E r \in api_keys : r.provider = "openai" /\ r.is_active


\* C22: a failure of the schema creation aborts startup, whereas a failure
\* inside the super-admin bootstrap or the default-LLM seeding is only logged:
\* it does not raise out of the table initialization and does not stop startup
C22_BootstrapFailuresDoNotAbort ==
    [][last'.op = "initialize_database" =>
         /\ SchemaRaises(db_fault) => last'.stopped
         /\ SessionRaises(db_fault) =>
                last'.tables.kind # "raise" /\ ~last'.stopped
    ]_vars


FailsFormat(api_key, provider) ==
    \/ api_key.len < 10
    \/ /\ provider = "openai"
       /\ api_key.prefix \notin {"sk-", "sk-ant-"} \/ api_key.len <= 20
    \/ /\ provider = "anthropic"
       /\ api_key.prefix # "sk-ant-" \/ api_key.len <= 20
    \/ provider \in KnownProviders \ {"openai", "anthropic"} /\ api_key.len <= 20
    \/ provider \notin KnownProviders /\ api_key.len <= 10

\* C24: storing a key that fails validate_api_key_format (shorter than 10;
\* for openai/anthropic missing the sk- / sk-ant- prefix or not longer than
\* 20; for another known provider not longer than 20; for an unknown provider
\* not longer than 10) returns false and leaves the table unchanged, the key
\* stored before for that pair included; a failure of the write itself is
\* rolled back and returns false too
C24_StoreRejectsAndRollsBack ==
    [][/\ last'.op = "store_user_api_key"
       /\ FailsFormat(last'.args[3], last'.args[2]) \/ SessionRaises(db_fault)
       => /\ last'.res = BoolR(FALSE)
          /\ api_keys' = api_keys
          /\ latest_key' = latest_key
    ]_vars

\* a malformed key was refused, and a well-formed one was lost to a failing
\* write, while a key stored before is still in the table
C24_Witness ==
    /\ last.op = "store_user_api_key"
    /\ last.res = BoolR(FALSE)
    /\ FailsFormat(last.args[3], last.args[2])
    /\ \E r \in api_keys : r.user_id = last.args[1] /\ r.provider = last.args[2]

C24_WitnessWriteFailure ==
    /\ last.op = "store_user_api_key"
    /\ last.res = BoolR(FALSE)
    /\ ~FailsFormat(last.args[3], last.args[2])
    /\ db_fault = "commit"
    /\ api_keys # {}


\* C25: after any sequence of seeding, save_llm_configuration and
\* delete_llm_configuration calls there is at most one row per (provider,
\* model_name, task_type); saving an existing triple updates its priority,
\* parameters and creator in place; get_llm_configurations returns only active
\* rows, only those of the requested task type when one is given, in ascending
\* priority order
C25_OneRowPerTriple ==
    /\ [](\A r1, r2 \in llm_configs :
             (/\ r1.provider = r2.provider
              /\ r1.model_name = r2.model_name
              /\ r1.task_type = r2.task_type) => r1 = r2)
    /\ [][/\ last'.op = "save_llm_configuration"
          /\ last'.res = BoolR(TRUE)
          /\ ConfigsOf(llm_configs, last'.args[1], last'.args[2], last'.args[3]) # {}
          => \E old \in llm_configs :
                /\ old.provider = last'.args[1]
                /\ old.model_name = last'.args[2]
                /\ old.task_type = last'.args[3]
                /\ llm_configs' = (llm_configs \ {old})
                                     \cup {[old EXCEPT !.priority = last'.args[4],
                                                       !.parameters = last'.args[5],
                                                       !.created_by = last'.args[6]]}
                /\ next_config_id' = next_config_id]_vars
    /\ [][last'.op = "get_llm_configurations" /\ last'.res.kind = "list" =>
            /\ Listed(last'.res) =
                  {r \in llm_configs :
                      /\ r.is_active
                      /\ Truthy(last'.args[1]) => r.task_type = last'.args[1]}
            /\ \A i, j \in DOMAIN last'.res.rows :
                  i < j => \A r1 \in last'.res.rows[i], r2 \in last'.res.rows[j] :
                              r1.priority < r2.priority]_vars

\* the admin saved new settings for a seeded triple: the row kept its id and
\* took the new priority, and listing the task type gives two priorities
C25_Witness ==
    /\ last.op = "get_llm_configurations"
    /\ last.args[1] = "code_generation"
    /\ Len(last.res.rows) >= 2
    /\ \E r \in llm_configs : r.id = 1 /\ r.priority = 5


\* C26: a task row left in 'processing' by a Results-page run that was
\* abandoned before the pipeline finished stays as it is in every later state
\* (no operation marks it failed or completes it), and a later run for the
\* same pending input creates a new task row instead of resuming that one.
\* (A run is one step of the model, so a row seen in 'processing' between
\* steps is the row an abandoned run left.)
C26_AbandonedTaskStaysProcessing ==
    /\ [][\A i \in DOMAIN research_tasks :
             research_tasks[i].status = "processing" =>
                i \in DOMAIN research_tasks' /\ research_tasks'[i] = research_tasks[i]
       ]_vars
    /\ [][/\ last'.op = "results_page"
          /\ PendingRun
          /\ HoldsResearchKey(check_authentication(session_state, now).res.user_id)
          /\ db_fault = "none"
          => /\ Len(research_tasks') = Len(research_tasks) + 1
             /\ last'.args[1] = "abandoned" =>
                   /\ research_tasks'[Len(research_tasks')].status = "processing"
                   /\ "processing_input" \in DOMAIN session_state'
                   /\ "processing_result" \notin DOMAIN session_state'
       ]_vars


\* the collectors whose handler records the failure through track_error, and
\* the two whose handler only prints
RecordingCollectors == {"track_user_activity", "track_api_usage", "track_performance"}

PrintingCollectors == {"track_error", "track_system_metrics"}

\* C27: a failing track_user_activity, track_api_usage or track_performance
\* makes exactly one track_error call, with severity warning, and returns
\* false; a failing track_error or track_system_metrics calls no other
\* collector and only prints; every collector call ends after at most one
\* nested error-recording attempt, even when every database write fails
C27_OneNestedErrorRecord ==
    [][last'.op \in RecordingCollectors \cup PrintingCollectors =>
         /\ Len(last'.nested) <= 1
         /\ (last'.op \in RecordingCollectors /\ last'.failed) =>
               /\ Len(last'.nested) = 1
               /\ last'.nested[1].severity = "warning"
               /\ last'.res = BoolR(FALSE)
               /\ Len(error_logs') <= Len(error_logs) + 1
               /\ SessionRaises(db_fault) => error_logs' = error_logs
         /\ (last'.op \in PrintingCollectors /\ last'.failed) =>
               /\ last'.nested = <<>>
               /\ last'.printed
               /\ last'.res = BoolR(FALSE)
               /\ error_logs' = error_logs
               /\ system_metrics' = system_metrics
         /\ ~last'.failed => last'.nested = <<>>
    ]_vars

\* track_performance failed while every database write fails: one attempt to
\* record the error, which failed too, and nothing was written
C27_Witness ==
    /\ last.op = "track_performance"
    /\ last.failed
    /\ db_fault = "commit"
    /\ Len(last.nested) = 1
    /\ error_logs = <<>>
    /\ performance_metrics = <<>>


\* the user of the session's login bundle, if it is still valid
LoggedIn == check_authentication(session_state, now).res

\* C28: in a session authenticated through the Login page get_session_info
\* returns the logged-in user's id, so that a tracker called without an
\* explicit user id (track_user_activity, track_api_usage, the exit of
\* track_api_call) records its row for that user
C28_SessionInfoHasLoggedInUser ==
    /\ [](LoggedIn # NoneR =>
             get_session_info(session_state, TRUE).user_id = LoggedIn.user_id)
    /\ [][/\ last'.op \in {"track_user_activity", "track_api_usage"}
          /\ LoggedIn # NoneR
          /\ last'.args[Len(last'.args)] = NoUserId
          /\ ~last'.failed
          => /\ last'.res = BoolR(TRUE)
             /\ \/ /\ Len(user_activities') = Len(user_activities) + 1
                   /\ user_activities'[Len(user_activities')].user_id = LoggedIn.user_id
                \/ /\ Len(api_usage_logs') = Len(api_usage_logs) + 1
                   /\ api_usage_logs'[Len(api_usage_logs')].user_id = LoggedIn.user_id
       ]_vars


\* C29: the outcome of require_admin / require_super_admin depends only on the
\* role flags captured in the session bundle at login and on the validity of
\* its token: login copies the flags of the user's row, the gates pass exactly
\* the sessions whose valid bundle carries the flag, and no step other than
\* the token's expiry, a logout or a new login changes the outcome, a change
\* of is_admin in the database included
C29_GatesReadTheLoginBundle ==
    /\ [][last'.op = "login" /\ last'.res.kind = "user" =>
            /\ last'.res.is_admin = users[last'.res.user_id].is_admin
            /\ last'.res.is_super_admin = users[last'.res.user_id].is_super_admin
       ]_vars
    /\ [][last'.op = "require_admin" =>
            last'.stopped = ~(LoggedIn # NoneR /\ LoggedIn.is_admin)]_vars
    /\ [][last'.op = "require_super_admin" =>
            last'.stopped = ~(LoggedIn # NoneR /\ LoggedIn.is_super_admin)]_vars
    /\ [][LoggedIn # NoneR /\ check_authentication(session_state', now').res # NoneR =>
            /\ require_admin(session_state', now').stopped
                  = require_admin(session_state, now).stopped
            /\ require_super_admin(session_state', now').stopped
                  = require_super_admin(session_state, now).stopped
       ]_vars

\* the Admin page opened for a session that logged in as an admin and whose
\* user has since lost is_admin in the database
C29_Witness ==
    /\ last.op = "require_admin"
    /\ ~last.stopped
    /\ ~users[last.res.user_id].is_admin


\* C30: under any sequence of register_user, init_super_admin, setup_user_totp
\* and update_user_admin_status calls no user other than jerome@rotz.host ever
\* has is_super_admin = true; is_admin of any other user changes only through
\* a successful update_user_admin_status for that user, and that call never
\* modifies is_super_admin of any user
C30_OnlyJeromeIsSuperAdmin ==
    /\ [](\A i \in DOMAIN users :
             users[i].is_super_admin => users[i].email = SuperAdminEmail)
    /\ [][\A i \in DOMAIN users :
             (users[i].email # SuperAdminEmail
                 /\ users'[i].is_admin # users[i].is_admin) =>
                /\ last'.op = "update_user_admin_status"
                /\ last'.res = BoolR(TRUE)
                /\ last'.args = <<i, users'[i].is_admin>>
       ]_vars
    /\ [][last'.op = "update_user_admin_status" =>
            /\ DOMAIN users' = DOMAIN users
            /\ \A i \in DOMAIN users :
                  users'[i].is_super_admin = users[i].is_super_admin
       ]_vars

\* an ordinary user who enrolled in 2FA was made admin by the role toggle,
\* next to a registered address that differs from the super admin's by case
C30_Witness ==
    /\ last.op = "update_user_admin_status"
    /\ last.res = BoolR(TRUE)
    /\ \E i \in DOMAIN users :
          /\ users[i].email = "alice@example.com"
          /\ users[i].is_admin
          /\ users[i].totp_secret # Null
    /\ \E i \in DOMAIN users : users[i].email = "Jerome@rotz.host"

====
